---------------------------- MODULE Spec2Model ----------------------------
(***************************************************************************)
(* Humanboard canvas interaction engine: the R-tree spatial index          *)
(* (src/src/spatial_index.rs), the pointer handlers                        *)
(* (src/src/input/mouse_down.rs, drag.rs, mouse_up.rs) over the input      *)
(* state machine (src/src/input/state.rs), and the board they mutate.      *)
(*                                                                         *)
(* Coordinates are f32 in the program.  The model uses whole pixels; every *)
(* pointer position, offset and size it enumerates is a whole number, and  *)
(* every division by the zoom that the modelled runs perform is exact, so  *)
(* the f32 arithmetic of those runs is exact too.                          *)
(***************************************************************************)
EXTENDS Integers, Sequences, FiniteSets, Bags, TLC

(***************************************************************************)
(* Program constants (src/src/constants.rs).                               *)
(***************************************************************************)
HEADER_HEIGHT == 40
DOCK_WIDTH == 44
SPLITTER_WIDTH == 16
MIN_MARQUEE_SIZE == 5
MIN_DRAW_DISTANCE == 10
MIN_ITEM_SIZE == 50
MIN_ARROW_SIZE == 20
MAX_HISTORY_STATES == 50
CHUNK_SIZE == 100
MAX_CACHED_CHUNKS == 20
FOOTER_HEIGHT == 28
DEFAULT_FONT_SIZE == 16
MIN_FONT_SIZE == 8
MAX_FONT_SIZE == 200
WEBVIEW_UNLOAD_DISTANCE == 2000
WEBVIEW_PRELOAD_DISTANCE == 500
WEBVIEW_UNLOAD_DELAY_MS == 300000

(***************************************************************************)
(* Bounds of the model.                                                    *)
(***************************************************************************)
\* pointer-down events handled in one run of the input specification
MaxDowns == 2
\* item ids 1..MaxIndexIds in the spatial-index specification
MaxIndexIds == 2
\* items on the board beyond which no chart is created
MaxItems == 4
\* pointer-down events handled in one run of the select-tool specification
MaxGestures == 1
\* policy ticks in one run of the webview specification
MaxTicks == 4
\* commit, undo and redo calls in one run of the history specification
MaxHistoryCalls == 4
\* get_rows and clear_cache calls in one run of the lazy-source specification
MaxLazyCalls == 3

VARIABLES
    board,            \* CanvasState.board: items, next_item_id, spatial_index,
                      \*   history, history_index, canvas_offset, zoom
    selected_items,   \* CanvasState.selected_items
    input_state,      \* CanvasState.input_state
    tool_selected,    \* ToolState.selected
    drawing_start,    \* ToolState.drawing_start (Option)
    drawing_current,  \* ToolState.drawing_current (Option)
    preview,          \* PreviewState.panel
    save_failed,      \* the last flush_save returned Err (its toast is up)
    downs,            \* pointer-down events handled so far (bounds the run)
    index,            \* spatial-index specification: the SpatialIndex under test
    shadow,           \* spatial-index specification: last box given per live id
    index_op,         \* spatial-index specification: what the last call met
    webviews,         \* WebViewManager: youtube (ids with a live webview) and
                      \*   out_of_range_since (id -> Instant)
    now,              \* Instant::now() at the last policy tick, in ms
    ticks,            \* policy ticks run so far (bounds the run)
    observed,         \* webview specification: per id the tick that began its
                      \*   current run of ticks beyond the unload distance, and
                      \*   the ids whose webview the last tick destroyed
    pointer_moved,    \* select-tool specification: a pointer-move was handled
                      \*   since the last pointer-down
    view,             \* NavigationState.view: "Board" while canvas.board is
                      \*   Some, "Landing" while it is None
    calls,            \* history specification: the outcomes of the commit,
                      \*   undo and redo calls made so far, oldest first
    coords,           \* coordinate specification: the point, offset and zoom
                      \*   of the conversion under way and its results
    lazy              \* lazy-source specification: the LazyDataSource, the
                      \*   get_rows calls in progress and their results

vars == <<board, selected_items, input_state, tool_selected, drawing_start,
          drawing_current, preview, save_failed, downs, index, shadow,
          index_op, webviews, now, ticks, observed, pointer_moved, view, calls,
          coords, lazy>>

\* no conversion under way; no data source open
NoConversion == [phase |-> "none"]
NoSource == [open |-> FALSE]

Min(a, b) == IF a <= b THEN a ELSE b
Max(a, b) == IF a >= b THEN a ELSE b
Abs(a) == IF a >= 0 THEN a ELSE 0 - a

WebViewManager_new == [youtube |-> {}, out_of_range_since |-> <<>>]

None == [some |-> FALSE]
Some(v) == [some |-> TRUE, v |-> v]

(***************************************************************************)
(* Spatial index (src/src/spatial_index.rs).  The rstar R-tree is a        *)
(* multiset of entries: a bag.  RTree::remove(&e) removes one stored       *)
(* element equal to e, and SpatialEntry's PartialEq compares item_id only. *)
(***************************************************************************)
SpatialEntry_new(item_id, position, size) ==
    [item_id |-> item_id,
     min_x |-> position[1], min_y |-> position[2],
     max_x |-> position[1] + size[1], max_y |-> position[2] + size[2]]

contains_point(e, x, y) ==
    x >= e.min_x /\ x <= e.max_x /\ y >= e.min_y /\ y <= e.max_y

\* AABB::from_corners orders the two corners per axis
AABB_from_corners(x0, y0, x1, y1) ==
    [lo_x |-> Min(x0, x1), lo_y |-> Min(y0, y1),
     hi_x |-> Max(x0, x1), hi_y |-> Max(y0, y1)]

envelope(e) == AABB_from_corners(e.min_x, e.min_y, e.max_x, e.max_y)

\* AABB::intersects: closed boxes, touching edges intersect
AABB_intersects(a, b) ==
    /\ a.lo_x <= b.hi_x /\ b.lo_x <= a.hi_x
    /\ a.lo_y <= b.hi_y /\ b.lo_y <= a.hi_y

SpatialEntry_eq(a, b) == a.item_id = b.item_id

RTree_insert(tree, e) == tree (+) SetToBag({e})

RTree_remove(tree, e) ==
    LET found == {x \in BagToSet(tree) : SpatialEntry_eq(x, e)}
    IN  IF found = {} THEN tree
        ELSE tree (-) SetToBag({CHOOSE x \in found : TRUE})

RECURSIVE CopiesOf(_, _)
CopiesOf(S, tree) ==
    IF S = {} THEN 0
    ELSE LET e == CHOOSE x \in S : TRUE
         IN  CopiesIn(e, tree) + CopiesOf(S \ {e}, tree)

\* the ids of the stored entries in hits, each as often as it is stored
IdsOf(tree, hits) ==
    [i \in {e.item_id : e \in hits} |->
        CopiesOf({e \in hits : e.item_id = i}, tree)]

MapRemove(m, k) == [i \in DOMAIN m \ {k} |-> m[i]]
MapInsert(m, k, v) == [i \in DOMAIN m \cup {k} |-> IF i = k THEN v ELSE m[i]]

SpatialIndex_new == [tree |-> EmptyBag, entries |-> <<>>]

\* a plausible slip: the old entry is left in the tree
SpatialIndex_insert_keep_old(idx, item_id, position, size) ==
    LET entry == SpatialEntry_new(item_id, position, size)
    IN  [tree |-> RTree_insert(idx.tree, entry),
         entries |-> MapInsert(idx.entries, item_id, entry)]

SpatialIndex_insert(idx, item_id, position, size) ==
    LET had == item_id \in DOMAIN idx.entries
        tree1 == IF had THEN RTree_remove(idx.tree, idx.entries[item_id])
                 ELSE idx.tree
        entries1 == IF had THEN MapRemove(idx.entries, item_id)
                    ELSE idx.entries
        entry == SpatialEntry_new(item_id, position, size)
    IN  [tree |-> RTree_insert(tree1, entry),
         entries |-> MapInsert(entries1, item_id, entry)]

SpatialIndex_remove(idx, item_id) ==
    IF item_id \in DOMAIN idx.entries
    THEN [tree |-> RTree_remove(idx.tree, idx.entries[item_id]),
          entries |-> MapRemove(idx.entries, item_id)]
    ELSE idx

SpatialIndex_update(idx, item_id, position, size) ==
    SpatialIndex_insert(idx, item_id, position, size)

\* a plausible slip: the contains_point filter uses strict comparisons
query_point_strict(idx, x, y) ==
    IdsOf(idx.tree,
          {e \in BagToSet(idx.tree) :
              /\ AABB_intersects(envelope(e), AABB_from_corners(x, y, x, y))
              /\ x > e.min_x /\ x < e.max_x /\ y > e.min_y /\ y < e.max_y})

\* the result Vec<u64> as a bag of ids: its order is the tree's, unspecified
query_point(idx, x, y) ==
    IdsOf(idx.tree,
          {e \in BagToSet(idx.tree) :
              /\ AABB_intersects(envelope(e), AABB_from_corners(x, y, x, y))
              /\ contains_point(e, x, y)})

\* a plausible slip: only entries wholly inside the rectangle are reported
query_rect_contained(idx, min_x, min_y, max_x, max_y) ==
    IdsOf(idx.tree,
          {e \in BagToSet(idx.tree) :
              LET q == AABB_from_corners(min_x, min_y, max_x, max_y)
                  b == envelope(e)
              IN  /\ q.lo_x <= b.lo_x /\ b.hi_x <= q.hi_x
                  /\ q.lo_y <= b.lo_y /\ b.hi_y <= q.hi_y})

query_rect(idx, min_x, min_y, max_x, max_y) ==
    IdsOf(idx.tree,
          {e \in BagToSet(idx.tree) :
              AABB_intersects(envelope(e),
                              AABB_from_corners(min_x, min_y, max_x, max_y))})

SpatialIndex_len(idx) == Cardinality(DOMAIN idx.entries)

(***************************************************************************)
(* Item content (src/src/types.rs).  Only the fields the handlers read.    *)
(***************************************************************************)
TextContent == [kind |-> "Text"]
ArrowContent(end_offset) == [kind |-> "Arrow", end_offset |-> end_offset]
ShapeContent == [kind |-> "Shape", border_width |-> 2]
TextBoxContent(font_size) == [kind |-> "TextBox", font_size |-> font_size]
TableContent == [kind |-> "Table"]
ChartContent == [kind |-> "Chart"]
YouTubeContent == [kind |-> "YouTube"]
MarkdownContent == [kind |-> "Markdown"]

default_size(content) ==
    CASE content.kind = "Text" -> <<300, 100>>
      [] content.kind = "TextBox" -> <<200, 100>>
      [] content.kind = "Arrow" ->
            <<Max(Abs(content.end_offset[1]), 50),
              Max(Abs(content.end_offset[2]), 20)>>
      [] content.kind = "Shape" -> <<150, 100>>
      [] content.kind = "Table" -> <<200, 36>>
      [] content.kind = "Chart" -> <<400, 300>>
      [] content.kind = "YouTube" -> <<560, 315>>
      [] content.kind = "Markdown" -> <<200, 36>>

(***************************************************************************)
(* Board.  board.rs is not among the sources: these operators follow the   *)
(* calls made on it (mouse_up.rs, data_viz.rs), its tests                  *)
(* (tests/it/integration/undo_redo_tests.rs) and the specification.        *)
(***************************************************************************)
ItemIds(b) == {b.items[i].id : i \in DOMAIN b.items}

has_item(b, id) == id \in ItemIds(b)

\* Board::get_item on an id that is present
get_item(b, id) == b.items[CHOOSE i \in DOMAIN b.items : b.items[i].id = id]

\* Board::get_item_mut(id) followed by the caller's assignment
set_item(b, id, item) ==
    [b EXCEPT !.items = [i \in DOMAIN b.items |->
                            IF b.items[i].id = id THEN item ELSE b.items[i]]]

\* a commit that inserts after the cursor and keeps the entries ahead of it
push_history_no_prune(b) ==
    LET kept == SubSeq(b.history, 1, b.history_index + 1)
        ahead == SubSeq(b.history, b.history_index + 2, Len(b.history))
        all == Append(kept, b.items) \o ahead
        cut == IF Len(all) > MAX_HISTORY_STATES + 1
               THEN SubSeq(all, 2, Len(all)) ELSE all
    IN  [b EXCEPT !.history = cut,
                  !.history_index = b.history_index + 1 - (Len(all) - Len(cut))]

\* a commit that, over the bound, drops the entry before the new one
push_history_drop_newest(b) ==
    LET kept == SubSeq(b.history, 1, b.history_index + 1)
        cut == IF Len(kept) > MAX_HISTORY_STATES
               THEN SubSeq(kept, 1, MAX_HISTORY_STATES) ELSE kept
        all == Append(cut, b.items)
    IN  [b EXCEPT !.history = all, !.history_index = Len(all) - 1]

\* commit: prune the entries ahead of the cursor, append, drop the oldest
push_history(b) ==
    LET kept == SubSeq(b.history, 1, b.history_index + 1)
        all == Append(kept, b.items)
        cut == IF Len(all) > MAX_HISTORY_STATES + 1
               THEN SubSeq(all, 2, Len(all)) ELSE all
    IN  [b EXCEPT !.history = cut, !.history_index = Len(cut) - 1]

\* Board::add_item: the new item takes the next id and its content's default
\* size, is indexed, and the addition is committed to the history
add_item(b, position, content) ==
    LET id == b.next_item_id
        item == [id |-> id, position |-> position,
                 size |-> default_size(content), content |-> content]
    IN  push_history(
            [b EXCEPT !.items = Append(b.items, item),
                      !.next_item_id = id + 1,
                      !.spatial_index =
                          SpatialIndex_insert(b.spatial_index, id, position,
                                              item.size)])

update_spatial_index(b, id) ==
    IF has_item(b, id)
    THEN [b EXCEPT !.spatial_index =
              SpatialIndex_update(b.spatial_index, id,
                                  get_item(b, id).position,
                                  get_item(b, id).size)]
    ELSE b

\* the index of a restored scene: one entry per item
RECURSIVE rebuild_spatial_index(_)
rebuild_spatial_index(items) ==
    IF items = <<>> THEN SpatialIndex_new
    ELSE LET item == items[Len(items)]
         IN  SpatialIndex_insert(
                 rebuild_spatial_index(SubSeq(items, 1, Len(items) - 1)),
                 item.id, item.position, item.size)

\* the scene becomes the snapshot at cursor i
restore_snapshot(b, i) ==
    [b EXCEPT !.items = b.history[i + 1],
              !.spatial_index = rebuild_spatial_index(b.history[i + 1]),
              !.history_index = i]

\* an undo that does not test for the first entry
undo_clamped(b) ==
    [ok |-> TRUE, board |-> restore_snapshot(b, Max(b.history_index - 1, 0))]

\* Board::undo: ok is the value returned, board the board afterwards
undo(b) ==
    IF b.history_index > 0
    THEN [ok |-> TRUE, board |-> restore_snapshot(b, b.history_index - 1)]
    ELSE [ok |-> FALSE, board |-> b]

\* Board::redo
redo(b) ==
    IF b.history_index + 1 < Len(b.history)
    THEN [ok |-> TRUE, board |-> restore_snapshot(b, b.history_index + 1)]
    ELSE [ok |-> FALSE, board |-> b]

query_items_at_point(b, x, y) == BagToSet(query_point(b.spatial_index, x, y))

query_items_in_rect(b, min_x, min_y, max_x, max_y) ==
    BagToSet(query_rect(b.spatial_index, min_x, min_y, max_x, max_y))

(***************************************************************************)
(* Input state (src/src/input/state.rs).                                   *)
(***************************************************************************)
Idle == [tag |-> "Idle"]
Panning(last_pos) == [tag |-> "Panning", last_pos |-> last_pos]
DraggingItems(primary_item, drag_offset) ==
    [tag |-> "DraggingItems", primary_item |-> primary_item,
     drag_offset |-> drag_offset]
ResizingItem(item_id, start_size, start_pos, original_font_size) ==
    [tag |-> "ResizingItem", item_id |-> item_id, start_size |-> start_size,
     start_pos |-> start_pos, original_font_size |-> original_font_size]
MarqueeSelecting(start, current) ==
    [tag |-> "MarqueeSelecting", start |-> start, current |-> current]
Drawing(tool, start, current) ==
    [tag |-> "Drawing", tool |-> tool, start |-> start, current |-> current]
SplitterDragging(direction, drag_start) ==
    [tag |-> "SplitterDragging", direction |-> direction,
     drag_start |-> drag_start]

CanvasPreview(direction) == [kind |-> "CanvasPreview", direction |-> direction]
PaneSplit(horizontal) == [kind |-> "PaneSplit", horizontal |-> horizontal]

StateTags == {"Idle", "Panning", "DraggingItems", "ResizingItem",
              "MarqueeSelecting", "Drawing", "SplitterDragging"}

is_dragging(s) ==
    s.tag \in {"Panning", "DraggingItems", "ResizingItem", "SplitterDragging"}
is_resizing(s) == s.tag = "ResizingItem"
is_dragging_items(s) == s.tag = "DraggingItems"
is_marquee_selecting(s) == s.tag = "MarqueeSelecting"
is_drawing(s) == s.tag = "Drawing"
is_panning(s) == s.tag = "Panning"
is_canvas_panning(s) == s.tag = "Panning"
is_splitter_dragging(s) == s.tag = "SplitterDragging"
is_idle(s) == s.tag = "Idle"
is_canvas_splitter_dragging(s) ==
    s.tag = "SplitterDragging" /\ s.direction.kind = "CanvasPreview"
is_pane_splitter_dragging(s) ==
    s.tag = "SplitterDragging" /\ s.direction.kind = "PaneSplit"

reset(s) == Idle
start_dragging(s, item_id, offset) == DraggingItems(item_id, offset)
start_resizing(s, item_id, start_size, start_pos, original_font_size) ==
    ResizingItem(item_id, start_size, start_pos, original_font_size)
start_splitter_drag(s, drag_start, direction) ==
    SplitterDragging(CanvasPreview(direction), drag_start)
start_pane_splitter_drag(s, drag_start, horizontal) ==
    SplitterDragging(PaneSplit(horizontal), drag_start)
start_marquee(s, start) == MarqueeSelecting(start, start)
set_marquee_current(s, current) ==
    IF s.tag = "MarqueeSelecting" THEN [s EXCEPT !.current = current] ELSE s
update_last_mouse_pos(s, pos) ==
    IF s.tag = "Panning" THEN [s EXCEPT !.last_pos = pos] ELSE s

(***************************************************************************)
(* Coordinate conversion (src/src/input/coords.rs, transform.rs).          *)
(***************************************************************************)
screen_to_canvas(screen_pos, canvas_offset, zoom) ==
    <<(screen_pos[1] - DOCK_WIDTH - canvas_offset[1]) \div zoom,
      (screen_pos[2] - HEADER_HEIGHT - canvas_offset[2]) \div zoom>>

canvas_to_screen(canvas_pos, canvas_offset, zoom) ==
    <<canvas_pos[1] * zoom + canvas_offset[1] + DOCK_WIDTH,
      canvas_pos[2] * zoom + canvas_offset[2] + HEADER_HEIGHT>>

\* Humanboard::screen_to_canvas(pos, header_offset)
Humanboard_screen_to_canvas(b, pos, header_offset) ==
    <<(pos[1] - DOCK_WIDTH - b.canvas_offset[1]) \div b.zoom,
      (pos[2] - header_offset - b.canvas_offset[2]) \div b.zoom>>

(***************************************************************************)
(* The window and the preview panel.  The split size, a fraction in the    *)
(* program, is kept in thousandths.                                        *)
(***************************************************************************)
WindowSize == <<1000, 700>>

NoPanel == [open |-> FALSE]
Panel(split, size) ==
    [open |-> TRUE, split |-> split, size |-> size, is_pane_split |-> FALSE,
     pane_split_horizontal |-> FALSE, pane_ratio |-> 500]

splitter_pos(pv) ==
    IF pv.split = "Vertical"
    THEN ((1000 - pv.size) * WindowSize[1]) \div 1000
    ELSE ((1000 - pv.size) * WindowSize[2]) \div 1000

mouse_along_split(pv, mouse_pos) ==
    IF pv.split = "Vertical" THEN mouse_pos[1] ELSE mouse_pos[2]

is_on_splitter(pv, mouse_pos) ==
    Abs(mouse_along_split(pv, mouse_pos) - splitter_pos(pv)) < SPLITTER_WIDTH

in_preview(pv, mouse_pos) ==
    mouse_along_split(pv, mouse_pos) > splitter_pos(pv)

\* open_table_preview: the panel is opened if it was closed
open_table_preview(pv) == IF pv.open THEN pv ELSE Panel("Vertical", 400)

(***************************************************************************)
(* The handlers work on the application state st:                          *)
(*   [board, selected_items, input_state, tool_selected, drawing_start,    *)
(*    drawing_current, preview, save_failed]                               *)
(***************************************************************************)
DrawingTools == {"Text", "Arrow", "Shape"}
ToolTypes == {"Select", "Text", "Arrow", "Shape", "Table", "Chart"}

\* mouse_down.rs 104-126: a Shape is hit near its border only
hit_filter(b, item, mouse_pos) ==
    IF item.content.kind = "Shape"
    THEN LET scaled_x == item.position[1] * b.zoom + b.canvas_offset[1] + DOCK_WIDTH
             scaled_y == item.position[2] * b.zoom + b.canvas_offset[2] + HEADER_HEIGHT
             scaled_width == item.size[1] * b.zoom
             scaled_height == item.size[2] * b.zoom
             border_hit_area == Max(item.content.border_width * b.zoom, 8)
         IN  \/ mouse_pos[1] - scaled_x < border_hit_area
             \/ (scaled_x + scaled_width) - mouse_pos[1] < border_hit_area
             \/ mouse_pos[2] - scaled_y < border_hit_area
             \/ (scaled_y + scaled_height) - mouse_pos[2] < border_hit_area
    ELSE TRUE

\* mouse_down.rs 89-127: the topmost candidate of the spatial index
clicked_item_id(b, mouse_pos) ==
    LET canvas_x == (mouse_pos[1] - DOCK_WIDTH - b.canvas_offset[1]) \div b.zoom
        canvas_y == (mouse_pos[2] - HEADER_HEIGHT - b.canvas_offset[2]) \div b.zoom
        candidates == query_items_at_point(b, canvas_x, canvas_y)
        hits == {i \in DOMAIN b.items :
                    /\ b.items[i].id \in candidates
                    /\ hit_filter(b, b.items[i], mouse_pos)}
    IN  IF hits = {} THEN None
        ELSE Some(b.items[CHOOSE i \in hits : \A j \in hits : j <= i].id)

\* mouse_down.rs 130-142
click_selection(selected, item_id, shift) ==
    IF shift
    THEN IF item_id \in selected THEN selected \ {item_id}
         ELSE selected \cup {item_id}
    ELSE IF item_id \in selected THEN selected
    ELSE {item_id}

\* mouse_down.rs 192-206
in_corner(b, item, mouse_pos) ==
    LET scaled_x == item.position[1] * b.zoom + b.canvas_offset[1] + DOCK_WIDTH
        scaled_y == item.position[2] * b.zoom + b.canvas_offset[2] + HEADER_HEIGHT
        corner_x == scaled_x + item.size[1] * b.zoom
        corner_y == scaled_y + item.size[2] * b.zoom
        corner_size == 30 * b.zoom
    IN  /\ mouse_pos[1] >= corner_x - corner_size
        /\ mouse_pos[1] <= corner_x + 5
        /\ mouse_pos[2] >= corner_y - corner_size
        /\ mouse_pos[2] <= corner_y + 5

\* mouse_down.rs 186-223
start_item_gesture(st, item_id, mouse_pos) ==
    LET b == st.board
        item == get_item(b, item_id)
        scaled_x == item.position[1] * b.zoom + b.canvas_offset[1] + DOCK_WIDTH
        scaled_y == item.position[2] * b.zoom + b.canvas_offset[2] + HEADER_HEIGHT
        original_font_size ==
            IF item.content.kind = "TextBox"
            THEN Some(item.content.font_size) ELSE None
    IN  IF in_corner(b, item, mouse_pos)
        THEN start_resizing(st.input_state, item_id, item.size, mouse_pos,
                            original_font_size)
        ELSE start_dragging(st.input_state, item_id,
                            <<mouse_pos[1] - scaled_x, mouse_pos[2] - scaled_y>>)

\* mouse_down.rs 129-224: a click that landed on an item
mouse_down_on_item(st, item_id, mouse_pos, shift, click_count) ==
    LET st1 == [st EXCEPT !.selected_items =
                    click_selection(st.selected_items, item_id, shift)]
        kind == get_item(st.board, item_id).content.kind
    IN  IF click_count = 2 /\ kind = "TextBox"
        THEN st1    \* start_textbox_editing, return
        ELSE IF click_count = 2 /\ kind = "Table"
        THEN [st1 EXCEPT !.preview = open_table_preview(st.preview)]
        ELSE [st1 EXCEPT !.input_state =
                  start_item_gesture(st, item_id, mouse_pos)]

\* mouse_down.rs 225-241: a click on empty canvas
mouse_down_on_canvas(st, mouse_pos, shift) ==
    IF st.tool_selected = "Select"
    THEN [st EXCEPT !.input_state = start_marquee(st.input_state, mouse_pos),
                    !.selected_items = IF shift THEN st.selected_items ELSE {}]
    ELSE [st EXCEPT !.drawing_start = Some(mouse_pos),
                    !.drawing_current = Some(mouse_pos)]

\* handle_mouse_down without the drawing-tool branch (mouse_down.rs 71-80)
handle_mouse_down_no_priority(st, mouse_pos, shift, click_count) ==
    IF st.preview.open /\ is_on_splitter(st.preview, mouse_pos)
    THEN [st EXCEPT !.input_state =
              start_splitter_drag(st.input_state, mouse_pos, st.preview.split)]
    ELSE IF st.preview.open /\ in_preview(st.preview, mouse_pos)
    THEN st
    ELSE LET clicked == clicked_item_id(st.board, mouse_pos)
         IN  IF clicked.some
             THEN mouse_down_on_item(st, clicked.v, mouse_pos, shift, click_count)
             ELSE mouse_down_on_canvas(st, mouse_pos, shift)

\* Humanboard::handle_mouse_down
handle_mouse_down(st, mouse_pos, shift, click_count) ==
    IF st.preview.open /\ is_on_splitter(st.preview, mouse_pos)
    THEN [st EXCEPT !.input_state =
              start_splitter_drag(st.input_state, mouse_pos, st.preview.split)]
    ELSE IF st.preview.open /\ in_preview(st.preview, mouse_pos)
    THEN st
    ELSE IF st.tool_selected \in DrawingTools
    THEN [st EXCEPT !.drawing_start = Some(mouse_pos),
                    !.drawing_current = Some(mouse_pos),
                    !.selected_items = {}]
    ELSE LET clicked == clicked_item_id(st.board, mouse_pos)
         IN  IF clicked.some
             THEN mouse_down_on_item(st, clicked.v, mouse_pos, shift, click_count)
             ELSE mouse_down_on_canvas(st, mouse_pos, shift)

Clamp(v, lo, hi) == Max(lo, Min(v, hi))

\* drag.rs 33-50: the canvas/preview split follows the pointer
splitter_move(pv, pos) ==
    IF pv.open
    THEN LET along == IF pv.split = "Vertical" THEN 1 ELSE 2
             new_size == 1000 - (pos[along] * 1000) \div WindowSize[along]
         IN  [pv EXCEPT !.size = Clamp(new_size, 200, 800)]
    ELSE pv

\* drag.rs 56-104: the ratio between the split preview panes
pane_splitter_move(pv, pos) ==
    IF pv.open /\ pv.is_pane_split
    THEN LET w == WindowSize[1] - DOCK_WIDTH
             h == WindowSize[2] - HEADER_HEIGHT - FOOTER_HEIGHT
             panel ==
                 IF pv.split = "Vertical"
                 THEN IF pv.pane_split_horizontal
                      THEN <<HEADER_HEIGHT, h>>
                      ELSE <<DOCK_WIDTH + (w * (1000 - pv.size)) \div 1000,
                             (w * pv.size) \div 1000>>
                 ELSE IF pv.pane_split_horizontal
                      THEN <<HEADER_HEIGHT + (h * (1000 - pv.size)) \div 1000,
                             (h * pv.size) \div 1000>>
                      ELSE <<DOCK_WIDTH, w>>
             mouse == IF pv.pane_split_horizontal THEN pos[2] ELSE pos[1]
         IN  [pv EXCEPT !.pane_ratio =
                  Clamp(((mouse - panel[1]) * 1000) \div panel[2], 200, 800)]
    ELSE pv

\* the new size without the minimum of any content type
resized_size_unclamped(kind, start_size, delta_x, delta_y) ==
    <<start_size[1] + delta_x, start_size[2] + delta_y>>

\* drag.rs 135-155: the new size by content type (None: the item is gone)
resized_size(kind, start_size, delta_x, delta_y) ==
    IF kind = "Markdown"
    THEN LET width == Max(start_size[1] + delta_x, 100)
         IN  <<width, (width * 36) \div 200>>
    ELSE IF kind = "Arrow"
    THEN LET n == (start_size[1] + delta_x) * start_size[2]
                  + (start_size[2] + delta_y) * start_size[1]
             \* start_size * max((scale_x + scale_y) / 2, 0.1), in whole pixels
             sw == Max(n \div (2 * start_size[2]), start_size[1] \div 10)
             sh == Max(n \div (2 * start_size[1]), start_size[2] \div 10)
         IN  <<Max(sw, MIN_ARROW_SIZE), Max(sh, MIN_ARROW_SIZE)>>
    ELSE <<Max(start_size[1] + delta_x, MIN_ITEM_SIZE),
           Max(start_size[2] + delta_y, MIN_ITEM_SIZE)>>

\* ArrowDirection::from_offset then to_signs (types.rs 499-516)
arrow_signs(end_offset) ==
    <<IF end_offset[1] >= 0 THEN 1 ELSE -1, IF end_offset[2] >= 0 THEN 1 ELSE -1>>

\* drag.rs 157-173: the item as resized
resized_item(item, new_size, start_size, original_font_size) ==
    LET sized == [item EXCEPT !.size = new_size]
    IN  IF item.content.kind = "Arrow"
        THEN LET sg == arrow_signs(item.content.end_offset)
             IN  [sized EXCEPT !.content.end_offset =
                      <<new_size[1] * sg[1], new_size[2] * sg[2]>>]
        ELSE IF item.content.kind = "TextBox" /\ original_font_size.some
        THEN [sized EXCEPT !.content.font_size =
                  Min(Max((original_font_size.v * new_size[2]) \div start_size[2],
                          MIN_FONT_SIZE), MAX_FONT_SIZE)]
        ELSE sized

\* drag.rs 113-177
resize_move(st, pos) ==
    LET s == st.input_state
        b == st.board
        delta_x == (pos[1] - s.start_pos[1]) \div b.zoom
        delta_y == (pos[2] - s.start_pos[2]) \div b.zoom
        kind == IF has_item(b, s.item_id)
                THEN get_item(b, s.item_id).content.kind ELSE "None"
        new_size == resized_size(kind, s.start_size, delta_x, delta_y)
    IN  IF has_item(b, s.item_id)
        THEN [st EXCEPT !.board =
                  set_item(b, s.item_id,
                           resized_item(get_item(b, s.item_id), new_size,
                                        s.start_size, s.original_font_size))]
        ELSE st

\* a plausible slip: the selection is moved whether or not the primary item
\* belongs to it
moved_items_always_group(b, selected, item_id, new_pos) ==
    IF has_item(b, item_id)
    THEN LET old == get_item(b, item_id).position
             delta_x == new_pos[1] - old[1]
             delta_y == new_pos[2] - old[2]
         IN  [i \in DOMAIN b.items |->
                 IF b.items[i].id \in selected \cup {item_id}
                 THEN [b.items[i] EXCEPT
                          !.position = <<b.items[i].position[1] + delta_x,
                                         b.items[i].position[2] + delta_y>>]
                 ELSE b.items[i]]
    ELSE b.items

\* a plausible slip: a group move that moves the primary item only
moved_items_primary_only(b, selected, item_id, new_pos) ==
    IF has_item(b, item_id)
    THEN [i \in DOMAIN b.items |->
             IF b.items[i].id = item_id
             THEN [b.items[i] EXCEPT !.position = new_pos]
             ELSE b.items[i]]
    ELSE b.items

\* drag.rs 192-213: group move of the selection, or the primary item alone
moved_items(b, selected, item_id, new_pos) ==
    IF has_item(b, item_id)
    THEN LET old == get_item(b, item_id).position
             delta_x == new_pos[1] - old[1]
             delta_y == new_pos[2] - old[2]
         IN  IF item_id \in selected /\ Cardinality(selected) > 1
             THEN [i \in DOMAIN b.items |->
                      IF b.items[i].id \in selected
                      THEN [b.items[i] EXCEPT
                               !.position = <<b.items[i].position[1] + delta_x,
                                              b.items[i].position[2] + delta_y>>]
                      ELSE b.items[i]]
             ELSE [i \in DOMAIN b.items |->
                      IF b.items[i].id = item_id
                      THEN [b.items[i] EXCEPT !.position = new_pos]
                      ELSE b.items[i]]
    ELSE b.items

\* drag.rs 178-217
drag_move(st, pos) ==
    LET s == st.input_state
        b == st.board
        adjusted_pos == <<pos[1] - s.drag_offset[1], pos[2] - s.drag_offset[2]>>
        canvas_pos == screen_to_canvas(adjusted_pos, b.canvas_offset, b.zoom)
    IN  [st EXCEPT !.board.items =
             moved_items(b, st.selected_items, s.primary_item, canvas_pos)]

\* drag.rs 218-226
pan_move(st, pos) ==
    LET last == st.input_state.last_pos
    IN  [st EXCEPT !.board.canvas_offset =
                       <<st.board.canvas_offset[1] + pos[1] - last[1],
                         st.board.canvas_offset[2] + pos[2] - last[2]>>,
                   !.input_state = update_last_mouse_pos(st.input_state, pos)]

\* Humanboard::handle_mouse_move (last_drop_pos is not kept in the model)
handle_mouse_move(st, pos) ==
    IF is_splitter_dragging(st.input_state)
    THEN [st EXCEPT !.preview = splitter_move(st.preview, pos)]
    ELSE IF is_pane_splitter_dragging(st.input_state)
    THEN [st EXCEPT !.preview = pane_splitter_move(st.preview, pos)]
    ELSE IF is_resizing(st.input_state)
    THEN resize_move(st, pos)
    ELSE IF is_dragging_items(st.input_state)
    THEN drag_move(st, pos)
    ELSE IF is_canvas_panning(st.input_state)
    THEN pan_move(st, pos)
    ELSE IF is_marquee_selecting(st.input_state)
    THEN [st EXCEPT !.input_state = set_marquee_current(st.input_state, pos)]
    ELSE IF st.drawing_start.some
    THEN [st EXCEPT !.drawing_current = Some(pos)]
    ELSE st

RECURSIVE update_spatial_index_all(_, _)
update_spatial_index_all(b, ids) ==
    IF ids = {} THEN b
    ELSE LET id == CHOOSE x \in ids : TRUE
         IN  update_spatial_index_all(update_spatial_index(b, id), ids \ {id})

\* a plausible slip: a history entry is committed for the last move as well
commit_modification_twice(st, save_ok) ==
    LET b == st.board
        indexed == IF is_resizing(st.input_state)
                   THEN update_spatial_index(b, st.input_state.item_id)
                   ELSE update_spatial_index_all(b, st.selected_items)
    IN  [st EXCEPT !.board = push_history(push_history(indexed)),
                   !.save_failed = ~save_ok]

\* mouse_up.rs 19-40: index the modified items, commit, save
commit_modification(st, save_ok) ==
    LET b == st.board
        indexed == IF is_resizing(st.input_state)
                   THEN update_spatial_index(b, st.input_state.item_id)
                   ELSE update_spatial_index_all(b, st.selected_items)
    IN  [st EXCEPT !.board = push_history(indexed),
                   !.save_failed = ~save_ok]

RECURSIVE toggle_all(_, _)
toggle_all(selected, ids) ==
    IF ids = {} THEN selected
    ELSE LET id == CHOOSE x \in ids : TRUE
         IN  toggle_all(IF id \in selected THEN selected \ {id}
                        ELSE selected \cup {id}, ids \ {id})

\* a finalization that ignores the modifier: matched ids are always added
finalize_marquee_no_toggle(st, shift) ==
    LET start == st.input_state.start
        end == st.input_state.current
        b == st.board
        canvas_min == screen_to_canvas(<<Min(start[1], end[1]), Min(start[2], end[2])>>,
                                       b.canvas_offset, b.zoom)
        canvas_max == screen_to_canvas(<<Max(start[1], end[1]), Max(start[2], end[2])>>,
                                       b.canvas_offset, b.zoom)
        intersecting_ids ==
            query_rect(b.spatial_index, canvas_min[1], canvas_min[2],
                       canvas_max[1], canvas_max[2])
    IN  IF \/ Abs(end[1] - start[1]) > MIN_MARQUEE_SIZE
           \/ Abs(end[2] - start[2]) > MIN_MARQUEE_SIZE
        THEN [st EXCEPT !.selected_items =
                  st.selected_items \cup BagToSet(intersecting_ids)]
        ELSE st

\* mouse_up.rs 43-79
finalize_marquee(st, shift) ==
    LET start == st.input_state.start
        end == st.input_state.current
        b == st.board
        min_x == Min(start[1], end[1])
        max_x == Max(start[1], end[1])
        min_y == Min(start[2], end[2])
        max_y == Max(start[2], end[2])
        canvas_min == screen_to_canvas(<<min_x, min_y>>, b.canvas_offset, b.zoom)
        canvas_max == screen_to_canvas(<<max_x, max_y>>, b.canvas_offset, b.zoom)
        intersecting_ids ==
            query_rect(b.spatial_index, canvas_min[1], canvas_min[2],
                       canvas_max[1], canvas_max[2])
    IN  IF (max_x - min_x) > MIN_MARQUEE_SIZE \/ (max_y - min_y) > MIN_MARQUEE_SIZE
        THEN [st EXCEPT !.selected_items =
                  IF shift
                  THEN toggle_all(st.selected_items, BagToSet(intersecting_ids))
                  ELSE st.selected_items \cup BagToSet(intersecting_ids)]
        ELSE st

\* mouse_up.rs 90: the release is too close to the start to draw anything
draw_cancelled(start, end) ==
    /\ Abs(end[1] - start[1]) < MIN_DRAW_DISTANCE
    /\ Abs(end[2] - start[2]) < MIN_DRAW_DISTANCE

\* a creation that adds the new item to the selection instead of replacing it
create_drawn_keep_selection(st, position, content, size) ==
    LET id == st.board.next_item_id
        b1 == add_item(st.board, position, content)
    IN  [st EXCEPT !.board = set_item(b1, id, [get_item(b1, id) EXCEPT !.size = size]),
                   !.selected_items = st.selected_items \cup {id}]

\* add_item, then the size assigned through get_item_mut, then the selection
create_drawn(st, position, content, size) ==
    LET id == st.board.next_item_id
        b1 == add_item(st.board, position, content)
    IN  [st EXCEPT !.board = set_item(b1, id, [get_item(b1, id) EXCEPT !.size = size]),
                   !.selected_items = {id}]

\* mouse_up.rs 98-207: the item drawn between start and end
finalize_drawing(st, start, end) ==
    LET start_canvas == Humanboard_screen_to_canvas(st.board, start, HEADER_HEIGHT)
        end_canvas == Humanboard_screen_to_canvas(st.board, end, HEADER_HEIGHT)
        start_x == start_canvas[1]
        start_y == start_canvas[2]
        end_x == end_canvas[1]
        end_y == end_canvas[2]
        width == Max(Abs(end_x - start_x), MIN_ARROW_SIZE)
        height == Max(Abs(end_y - start_y), MIN_ARROW_SIZE)
        pos_x == Min(start_x, end_x)
        pos_y == Min(start_y, end_y)
    IN  CASE st.tool_selected = "Arrow" ->
               create_drawn(st, <<pos_x, pos_y>>,
                            ArrowContent(<<end_x - start_x, end_y - start_y>>),
                            <<width, height>>)
          [] st.tool_selected = "Shape" ->
               create_drawn(st, <<pos_x, pos_y>>, ShapeContent, <<width, height>>)
          [] st.tool_selected = "Text" ->
               create_drawn(st, <<pos_x, pos_y>>, TextBoxContent(DEFAULT_FONT_SIZE),
                            <<Max(width, 100), Max(height, 40)>>)
          [] st.tool_selected = "Table" ->
               create_drawn(st, <<pos_x, pos_y>>, TableContent,
                            <<Max(width, 300), Max(height, 200)>>)
          [] OTHER -> st

\* Humanboard::handle_mouse_up
handle_mouse_up(st, pos, shift, save_ok) ==
    LET was_modifying == is_dragging(st.input_state) \/ is_resizing(st.input_state)
        st1 == IF was_modifying THEN commit_modification(st, save_ok) ELSE st
        st2 == IF is_marquee_selecting(st1.input_state)
               THEN finalize_marquee(st1, shift) ELSE st1
    IN  IF st2.drawing_start.some
        THEN IF draw_cancelled(st2.drawing_start.v, pos)
             THEN \* early return: input_state is not reset
                  [st2 EXCEPT !.drawing_start = None, !.drawing_current = None,
                              !.tool_selected = "Select"]
             ELSE LET st3 == finalize_drawing(st2, st2.drawing_start.v, pos)
                  IN  [st3 EXCEPT !.tool_selected = "Select",
                                  !.drawing_start = None,
                                  !.drawing_current = None,
                                  !.input_state = reset(st3.input_state)]
        ELSE [st2 EXCEPT !.input_state = reset(st2.input_state)]

\* create_chart_from_table_with_config (data_viz.rs 105-150)
create_chart_from_table(st, table_item_id) ==
    IF has_item(st.board, table_item_id)
    THEN LET table == get_item(st.board, table_item_id)
             chart_pos == <<table.position[1] + table.size[1] + 50,
                            table.position[2]>>
             chart_id == st.board.next_item_id
             b1 == add_item(st.board, chart_pos, ChartContent)
             b2 == set_item(b1, chart_id,
                            [get_item(b1, chart_id) EXCEPT !.size = <<400, 300>>])
             b3 == update_spatial_index(b2, chart_id)
         IN  [st EXCEPT !.board = push_history(b3),
                        !.selected_items = {chart_id}]
    ELSE st

(***************************************************************************)
(* The input specification: pointer events on a board of two text items.   *)
(***************************************************************************)
\* Board::new_for_test: an empty scene, committed as the first history entry
Board_new ==
    [items |-> <<>>, next_item_id |-> 0, spatial_index |-> SpatialIndex_new,
     history |-> << <<>> >>, history_index |-> 0,
     canvas_offset |-> <<0, 0>>, zoom |-> 1]

\* screen positions of the pointer events: on the first item, on its resize
\* corner, on the second item, two on empty canvas 4 px apart, on the preview
\* splitter
Points == {<<100, 80>>, <<330, 130>>, <<500, 80>>, <<20, 20>>, <<24, 22>>,
           <<600, 300>>}

St == [board |-> board, selected_items |-> selected_items,
       input_state |-> input_state, tool_selected |-> tool_selected,
       drawing_start |-> drawing_start, drawing_current |-> drawing_current,
       preview |-> preview, save_failed |-> save_failed]

Becomes(st) ==
    /\ board' = st.board
    /\ selected_items' = st.selected_items
    /\ input_state' = st.input_state
    /\ tool_selected' = st.tool_selected
    /\ drawing_start' = st.drawing_start
    /\ drawing_current' = st.drawing_current
    /\ preview' = st.preview
    /\ save_failed' = st.save_failed

Settled == is_idle(input_state) /\ ~drawing_start.some

Init ==
    /\ board = add_item(add_item(Board_new, <<0, 0>>, TextContent),
                        <<400, 0>>, TextContent)
    /\ selected_items = {}
    /\ input_state = Idle
    /\ tool_selected = "Select"
    /\ drawing_start = None
    /\ drawing_current = None
    /\ preview = Panel("Vertical", 400)
    /\ save_failed = FALSE
    /\ downs = 0
    /\ index = SpatialIndex_new
    /\ shadow = <<>>
    /\ index_op = "none"
    /\ webviews = WebViewManager_new
    /\ now = 0
    /\ ticks = 0
    /\ observed = [far_since |-> <<>>, destroyed |-> {}]
    /\ pointer_moved = FALSE
    /\ view = "Board"
    /\ calls = <<>>
    /\ coords = NoConversion
    /\ lazy = NoSource

MouseDown ==
    /\ downs < MaxDowns
    /\ \E p \in Points, shift \in BOOLEAN, click_count \in {1, 2} :
          Becomes(handle_mouse_down(St, p, shift, click_count))
    /\ downs' = downs + 1
    /\ UNCHANGED <<index, shadow, index_op, webviews, now, ticks, observed,
                   pointer_moved, view, calls, coords, lazy>>

MouseMove ==
    /\ \E p \in Points : Becomes(handle_mouse_move(St, p))
    /\ UNCHANGED <<downs, index, shadow, index_op, webviews, now, ticks, observed,
                   pointer_moved, view, calls, coords, lazy>>

MouseUp ==
    /\ \E p \in Points, shift \in BOOLEAN, save_ok \in BOOLEAN :
          Becomes(handle_mouse_up(St, p, shift, save_ok))
    /\ UNCHANGED <<downs, index, shadow, index_op, webviews, now, ticks, observed,
                   pointer_moved, view, calls, coords, lazy>>

\* the tool dock: a tool is picked between gestures
SelectTool ==
    /\ Settled
    /\ \E t \in ToolTypes : t # tool_selected /\ tool_selected' = t
    /\ UNCHANGED <<board, selected_items, input_state, drawing_start,
                   drawing_current, preview, save_failed, downs, index, shadow,
                   index_op, webviews, now, ticks, observed, pointer_moved, view, calls, coords, lazy>>

\* the chart dialog: a chart is created from a table between gestures
CreateChart ==
    /\ Settled
    /\ Len(board.items) < MaxItems
    /\ \E i \in DOMAIN board.items :
          /\ board.items[i].content.kind = "Table"
          /\ Becomes(create_chart_from_table(St, board.items[i].id))
    /\ UNCHANGED <<downs, index, shadow, index_op, webviews, now, ticks, observed,
                   pointer_moved, view, calls, coords, lazy>>

Next == MouseDown \/ MouseMove \/ MouseUp \/ SelectTool \/ CreateChart

Spec == Init /\ [][Next]_vars

(***************************************************************************)
(* Properties of the pointer handlers.                                     *)
(***************************************************************************)
\* the entry the board's index should hold for an item
ItemEntry(b, id) ==
    SpatialEntry_new(id, get_item(b, id).position, get_item(b, id).size)

\* C1: at every point of any sequence of pointer events exactly one
\* interaction mode is active: the input state is one of the seven variants,
\* and while a drawing gesture is in progress no drag, resize, marquee, pan
\* or splitter gesture is.
C1_OneModeActive ==
    /\ input_state.tag \in StateTags
    /\ drawing_start.some => is_idle(input_state)

\* C2: after every pointer-up the input state is Idle and no drawing gesture
\* remains in progress, whatever was active before it.
C2_PointerUpResets ==
    [][MouseUp => (is_idle(input_state') /\ ~drawing_start'.some)]_vars

\* C3: a pointer-down that arrives while a gesture is in progress (the input
\* state is not Idle, or a drawing is in progress) starts nothing: it neither
\* replaces the gesture nor starts a second one beside it.
C3_DownOnlyFromIdle ==
    [][(MouseDown /\ ~Settled) =>
           /\ input_state' = input_state
           /\ drawing_start' = drawing_start]_vars

\* C4: whenever no gesture is in progress, every item of the scene has
\* exactly one entry in the board's spatial index, no entry is for an id
\* absent from the scene, and each entry's rectangle is the item's current
\* position and size.
C4_SettledIndexMatchesScene ==
    Settled =>
        LET idx == board.spatial_index
        IN  /\ DOMAIN idx.entries = ItemIds(board)
            /\ {e.item_id : e \in BagToSet(idx.tree)} = ItemIds(board)
            /\ \A e \in BagToSet(idx.tree) :
                  /\ CopiesIn(e, idx.tree) = 1
                  /\ e = ItemEntry(board, e.item_id)
            /\ \A id \in ItemIds(board) : idx.entries[id] = ItemEntry(board, id)

\* C5: when a DraggingItems or ResizingItem gesture ends on pointer-up, the
\* index entry of the dragged primary item, of every selected item and of the
\* resized item is the item's box after the gesture.
C5_GestureEndUpdatesIndex ==
    [][(MouseUp /\ (is_dragging_items(input_state) \/ is_resizing(input_state)))
        => LET moved == IF is_resizing(input_state)
                        THEN {input_state.item_id}
                        ELSE {input_state.primary_item} \cup selected_items
           IN  \A id \in moved \cap ItemIds(board') :
                  /\ id \in DOMAIN board'.spatial_index.entries
                  /\ board'.spatial_index.entries[id] = ItemEntry(board', id)
                  /\ BagIn(ItemEntry(board', id), board'.spatial_index.tree)]_vars

(***************************************************************************)
(* Properties of the end of a drawing gesture.  A pointer-up is told from  *)
(* the step it makes: the step of a release at p is the one that turns the *)
(* state into handle_mouse_up of it.                                       *)
(***************************************************************************)
\* the pointer-up at p, with a drawing in progress
DrawingReleasedAt(p, shift, save_ok) ==
    /\ drawing_start.some
    /\ downs' = downs
    /\ Becomes(handle_mouse_up(St, p, shift, save_ok))

\* the items of b2 are those of b1 followed by exactly one new item
OneItemAdded(b1, b2) ==
    /\ Len(b2.items) = Len(b1.items) + 1
    /\ SubSeq(b2.items, 1, Len(b1.items)) = b1.items
    /\ b2.items[Len(b2.items)].id \notin ItemIds(b1)

DrawPoints == {<<20, 20>>, <<24, 22>>, <<100, 80>>, <<500, 80>>}

InitDraw ==
    /\ board = add_item(add_item(Board_new, <<0, 0>>, TextContent),
                        <<400, 0>>, TextContent)
    /\ selected_items \in {{}, {0}}
    /\ input_state = Idle
    /\ tool_selected = "Select"
    /\ drawing_start = None
    /\ drawing_current = None
    /\ preview = NoPanel
    /\ save_failed = FALSE
    /\ downs = 0
    /\ index = SpatialIndex_new
    /\ shadow = <<>>
    /\ index_op = "none"
    /\ webviews = WebViewManager_new
    /\ now = 0
    /\ ticks = 0
    /\ observed = [far_since |-> <<>>, destroyed |-> {}]
    /\ pointer_moved = FALSE
    /\ view = "Board"
    /\ calls = <<>>
    /\ coords = NoConversion
    /\ lazy = NoSource

DrawDown ==
    /\ downs < MaxGestures
    /\ \E p \in DrawPoints, shift \in BOOLEAN :
          Becomes(handle_mouse_down(St, p, shift, 1))
    /\ downs' = downs + 1
    /\ UNCHANGED <<index, shadow, index_op, webviews, now, ticks, observed,
                   pointer_moved, view, calls, coords, lazy>>

DrawMove ==
    /\ \E p \in DrawPoints : Becomes(handle_mouse_move(St, p))
    /\ UNCHANGED <<downs, index, shadow, index_op, webviews, now, ticks, observed,
                   pointer_moved, view, calls, coords, lazy>>

DrawUp ==
    /\ \E p \in DrawPoints, shift \in BOOLEAN, save_ok \in BOOLEAN :
          Becomes(handle_mouse_up(St, p, shift, save_ok))
    /\ UNCHANGED <<downs, index, shadow, index_op, webviews, now, ticks, observed,
                   pointer_moved, view, calls, coords, lazy>>

NextDraw == SelectTool \/ DrawDown \/ DrawMove \/ DrawUp

SpecDraw == InitDraw /\ [][NextDraw]_vars

\* the tools whose drawing ends in an item (mouse_up.rs 111-201)
ItemTools == {"Arrow", "Shape", "Text", "Table"}

CurrentSnapshot(b) == b.history[b.history_index + 1]

\* C17: a completed drawing gesture leaves the history cursor on a snapshot
\* that holds the new item as finalized, with the size assigned from the
\* drawn rectangle.
C17_DrawnItemCommittedWithSize ==
    [][\A p \in Points, shift \in BOOLEAN, save_ok \in BOOLEAN :
          (/\ drawing_start.some
           /\ ~draw_cancelled(drawing_start.v, p)
           /\ DrawingReleasedAt(p, shift, save_ok)
           /\ OneItemAdded(board, board')) =>
             LET new == board'.items[Len(board'.items)]
                 snapshot == CurrentSnapshot(board')
             IN  \E i \in DOMAIN snapshot : snapshot[i] = new]_vars

\* the gesture in progress is a drawing or a marquee whose extent, to the
\* release at p for a drawing and to the last pointer position for a marquee,
\* is below the threshold in both dimensions
BelowThreshold(p) ==
    \/ /\ drawing_start.some
       /\ Abs(p[1] - drawing_start.v[1]) < MIN_DRAW_DISTANCE
       /\ Abs(p[2] - drawing_start.v[2]) < MIN_DRAW_DISTANCE
    \/ /\ is_marquee_selecting(input_state)
       /\ Abs(input_state.current[1] - input_state.start[1]) < MIN_MARQUEE_SIZE
       /\ Abs(input_state.current[2] - input_state.start[2]) < MIN_MARQUEE_SIZE

\* C18: the pointer-up that releases a drawing or a marquee below the
\* threshold is a no-op on the scene: the items, the selection and the
\* history are after it what they were before it.
C18_SmallReleaseIsNoOp ==
    [][\A p \in Points, shift \in BOOLEAN, save_ok \in BOOLEAN :
          (/\ BelowThreshold(p)
           /\ downs' = downs
           /\ Becomes(handle_mouse_up(St, p, shift, save_ok))) =>
             /\ board'.items = board.items
             /\ selected_items' = selected_items
             /\ board'.history = board.history
             /\ board'.history_index = board.history_index]_vars

(***************************************************************************)
(* The spatial-index specification: insert, update and remove on one       *)
(* SpatialIndex; shadow records the last box given for each id not since   *)
(* removed.                                                                *)
(***************************************************************************)
IndexIds == 1..MaxIndexIds
IndexCoords == {0, 1}
IndexPositions == IndexCoords \X IndexCoords
IndexSizes == {<<0, 0>>, <<2, 1>>}
\* the points and rectangle corners the queries are asked at
ProbeCoords == -1..4

InitIndex ==
    /\ board = Board_new
    /\ selected_items = {}
    /\ input_state = Idle
    /\ tool_selected = "Select"
    /\ drawing_start = None
    /\ drawing_current = None
    /\ preview = NoPanel
    /\ save_failed = FALSE
    /\ downs = 0
    /\ index = SpatialIndex_new
    /\ shadow = <<>>
    /\ index_op = "none"
    /\ webviews = WebViewManager_new
    /\ now = 0
    /\ ticks = 0
    /\ observed = [far_since |-> <<>>, destroyed |-> {}]
    /\ pointer_moved = FALSE
    /\ view = "Board"
    /\ calls = <<>>
    /\ coords = NoConversion
    /\ lazy = NoSource

IndexFrame == UNCHANGED <<board, selected_items, input_state, tool_selected,
                          drawing_start, drawing_current, preview, save_failed,
                          downs, webviews, now, ticks, observed, pointer_moved, view, calls, coords, lazy>>

IndexInsert ==
    /\ \E id \in IndexIds, pos \in IndexPositions, size \in IndexSizes :
          /\ index' = SpatialIndex_insert(index, id, pos, size)
          /\ shadow' = MapInsert(shadow, id, [position |-> pos, size |-> size])
          /\ index_op' = IF id \in DOMAIN shadow THEN "replaced" ELSE "added"
    /\ IndexFrame

IndexUpdate ==
    /\ \E id \in IndexIds, pos \in IndexPositions, size \in IndexSizes :
          /\ index' = SpatialIndex_update(index, id, pos, size)
          /\ shadow' = MapInsert(shadow, id, [position |-> pos, size |-> size])
          /\ index_op' = IF id \in DOMAIN shadow THEN "replaced" ELSE "added"
    /\ IndexFrame

IndexRemove ==
    /\ \E id \in IndexIds :
          /\ index' = SpatialIndex_remove(index, id)
          /\ shadow' = MapRemove(shadow, id)
          /\ index_op' = IF id \in DOMAIN shadow THEN "removed" ELSE "absent"
    /\ IndexFrame

NextIndex == IndexInsert \/ IndexUpdate \/ IndexRemove

SpecIndex == InitIndex /\ [][NextIndex]_vars

(***************************************************************************)
(* Properties of the spatial index, under SpecIndex.                       *)
(***************************************************************************)
\* the box last given for a live id, as the entry the index should hold
ShadowEntry(id) == SpatialEntry_new(id, shadow[id].position, shadow[id].size)

ProbePoints == ProbeCoords \X ProbeCoords
\* a rectangle is a corner and the offset of the opposite corner: a point,
\* a small box, a box given by its corners in reverse, a box that can hold
\* an entry
RectExtents == {<<0, 0>>, <<1, 2>>, <<-2, -1>>, <<4, 4>>}

\* C7: after any sequence of insert, update and remove the index holds at
\* most one entry per item id, in its R-tree and in its id map; len() is the
\* number of ids inserted and not since removed; an insert of an id already
\* present has replaced its entry, so the one entry is the box last given.
C7_OneEntryPerId ==
    /\ \A e \in BagToSet(index.tree) : CopiesIn(e, index.tree) = 1
    /\ \A e1, e2 \in BagToSet(index.tree) :
          e1.item_id = e2.item_id => e1 = e2
    /\ {e.item_id : e \in BagToSet(index.tree)} = DOMAIN index.entries
    /\ DOMAIN index.entries = DOMAIN shadow
    /\ SpatialIndex_len(index) = Cardinality(DOMAIN shadow)
    /\ \A id \in DOMAIN shadow :
          /\ index.entries[id] = ShadowEntry(id)
          /\ BagIn(ShadowEntry(id), index.tree)

\* an insert or update has just met an id already present, beside another id
C7_Witness ==
    /\ index_op = "replaced"
    /\ Cardinality(DOMAIN shadow) = MaxIndexIds
    /\ SpatialIndex_len(index) = MaxIndexIds

\* C8: for every point, query_point returns exactly the ids whose current
\* box contains the point, edges included, each id once.
C8_QueryPointExact ==
    \A p \in ProbePoints :
        query_point(index, p[1], p[2]) =
            SetToBag({id \in DOMAIN shadow :
                         contains_point(ShadowEntry(id), p[1], p[2])})

\* after a replacement or a removal, a point on the corner of one live box
\* and outside another is answered with the one id
C8_Witness ==
    /\ index_op \in {"replaced", "removed"}
    /\ \E id \in DOMAIN shadow, p \in ProbePoints :
          /\ p[1] = ShadowEntry(id).max_x /\ p[2] = ShadowEntry(id).max_y
          /\ shadow[id].size # <<0, 0>>
          /\ query_point(index, p[1], p[2]) = SetToBag({id})

\* C9: for every rectangle, query_rect returns exactly the ids whose current
\* box intersects the rectangle.
C9_QueryRectExact ==
    \A p \in ProbePoints, d \in RectExtents :
        query_rect(index, p[1], p[2], p[1] + d[1], p[2] + d[2]) =
            SetToBag({id \in DOMAIN shadow :
                         AABB_intersects(envelope(ShadowEntry(id)),
                             AABB_from_corners(p[1], p[2],
                                               p[1] + d[1], p[2] + d[2]))})

\* after a replacement, a rectangle that overlaps one live box without
\* holding it, and misses another live box, is answered with the one id
C9_Witness ==
    /\ index_op = "replaced"
    /\ \E id \in DOMAIN shadow, other \in DOMAIN shadow,
          p \in ProbePoints, d \in RectExtents :
          /\ other # id
          /\ d # <<0, 0>>
          /\ ShadowEntry(id).min_x < p[1] /\ p[1] < ShadowEntry(id).max_x
          /\ query_rect(index, p[1], p[2], p[1] + d[1], p[2] + d[2])
                = SetToBag({id})

(***************************************************************************)
(* The select-tool specification: pointer events with the Select tool on   *)
(* the same board, no preview panel, starting from a selection that a      *)
(* marquee can have left: nothing, the first item, or both items.          *)
(***************************************************************************)
\* on the first item, on its resize corner, on the second item, on empty canvas
SelectPoints == {<<100, 80>>, <<330, 130>>, <<500, 80>>, <<20, 20>>}

InitSelect ==
    /\ board = add_item(add_item(Board_new, <<0, 0>>, TextContent),
                        <<400, 0>>, TextContent)
    /\ selected_items \in {{}, {0}, {0, 1}}
    /\ input_state = Idle
    /\ tool_selected = "Select"
    /\ drawing_start = None
    /\ drawing_current = None
    /\ preview = NoPanel
    /\ save_failed = FALSE
    /\ downs = 0
    /\ index = SpatialIndex_new
    /\ shadow = <<>>
    /\ index_op = "none"
    /\ webviews = WebViewManager_new
    /\ now = 0
    /\ ticks = 0
    /\ observed = [far_since |-> <<>>, destroyed |-> {}]
    /\ pointer_moved = FALSE
    /\ view = "Board"
    /\ calls = <<>>
    /\ coords = NoConversion
    /\ lazy = NoSource

SelectDown ==
    /\ downs < MaxGestures
    /\ \E p \in SelectPoints, shift \in BOOLEAN, click_count \in {1, 2} :
          Becomes(handle_mouse_down(St, p, shift, click_count))
    /\ downs' = downs + 1
    /\ pointer_moved' = FALSE
    /\ UNCHANGED <<index, shadow, index_op, webviews, now, ticks, observed,
                   view, calls, coords, lazy>>

SelectMove ==
    /\ \E p \in SelectPoints : Becomes(handle_mouse_move(St, p))
    /\ pointer_moved' = TRUE
    /\ UNCHANGED <<downs, index, shadow, index_op, webviews, now, ticks, observed,
                   view, calls, coords, lazy>>

SelectUp ==
    /\ \E p \in SelectPoints, shift \in BOOLEAN, save_ok \in BOOLEAN :
          Becomes(handle_mouse_up(St, p, shift, save_ok))
    /\ UNCHANGED <<downs, index, shadow, index_op, webviews, now, ticks, observed,
                   pointer_moved, view, calls, coords, lazy>>

NextSelect == SelectDown \/ SelectMove \/ SelectUp

SpecSelect == InitSelect /\ [][NextSelect]_vars


(***************************************************************************)
(* Properties of drag and resize gestures, under SpecSelect.               *)
(***************************************************************************)
InGesture == is_dragging_items(input_state) \/ is_resizing(input_state)

PositionOf(b, id) == get_item(b, id).position

\* C6: a drag or resize gesture of one pointer-down, one or more
\* pointer-moves and one pointer-up adds exactly one history entry, at the
\* pointer-up: a step that changes the history or its cursor is neither a
\* pointer-down nor a pointer-move, and the pointer-up that ends the gesture
\* appends the scene as the one new entry and puts the cursor on it.
C6_OneEntryPerGesture ==
    [][/\ (\/ board'.history # board.history
           \/ board'.history_index # board.history_index) =>
             ~(SelectDown \/ SelectMove)
       /\ (InGesture /\ SelectUp) =>
             /\ board'.history = Append(board.history, board'.items)
             /\ board'.history_index = board.history_index + 1]_vars

\* one gesture is over: the first item was dragged off its place, and the
\* history holds one entry more than at the start, the scene as it now is
C6_Witness ==
    /\ downs = 1
    /\ is_idle(input_state)
    /\ PositionOf(board, 0) # <<0, 0>>
    /\ Len(board.history) = 4
    /\ board.history[4] = board.items
    /\ board.history[3] # board.items

\* C10: while the dragged primary item is one of two or more selected items,
\* every pointer-move moves every selected item by the same delta and no
\* other item, and the pointer-up moves nothing: the selected items keep
\* their offsets from one another.
C10_GroupMoveSameDelta ==
    [][/\ (/\ is_dragging_items(input_state)
           /\ input_state.primary_item \in selected_items
           /\ Cardinality(selected_items) > 1
           /\ SelectMove) =>
             LET primary == input_state.primary_item
                 dx == PositionOf(board', primary)[1] - PositionOf(board, primary)[1]
                 dy == PositionOf(board', primary)[2] - PositionOf(board, primary)[2]
             IN  \A id \in ItemIds(board) :
                    PositionOf(board', id) =
                        IF id \in selected_items
                        THEN <<PositionOf(board, id)[1] + dx,
                               PositionOf(board, id)[2] + dy>>
                        ELSE PositionOf(board, id)
       /\ (is_dragging_items(input_state) /\ SelectUp) =>
             \A id \in ItemIds(board) :
                 PositionOf(board', id) = PositionOf(board, id)]_vars

\* a group drag in progress: both items are selected and have left their
\* places by the same amount
C10_Witness ==
    /\ is_dragging_items(input_state)
    /\ selected_items = {0, 1}
    /\ PositionOf(board, 0) # <<0, 0>>
    /\ PositionOf(board, 1)[1] - PositionOf(board, 0)[1] = 400
    /\ PositionOf(board, 1)[2] - PositionOf(board, 0)[2] = 0


\* C11: dragging an item that is not in the selection moves that item only:
\* a pointer-move of such a drag leaves every other item, selected or not,
\* where and as large as it was, and leaves the dragged item's size; the
\* pointer-down that starts a gesture and the pointer-up that ends the drag
\* change no item.
C11_UnselectedDragMovesOnlyPrimary ==
    [][/\ (/\ is_dragging_items(input_state)
           /\ input_state.primary_item \notin selected_items
           /\ SelectMove) =>
             \A id \in ItemIds(board) :
                IF id = input_state.primary_item
                THEN get_item(board', id).size = get_item(board, id).size
                ELSE get_item(board', id) = get_item(board, id)
       /\ (/\ is_dragging_items(input_state)
           /\ input_state.primary_item \notin selected_items
           /\ SelectUp) => board'.items = board.items
       /\ (board'.items # board.items) => ~SelectDown]_vars

\* the first item, toggled out of the selection, has been dragged off its
\* place while the second, still selected, stays where it was
C11_Witness ==
    /\ is_dragging_items(input_state)
    /\ input_state.primary_item = 0
    /\ selected_items = {1}
    /\ PositionOf(board, 0) # <<0, 0>>
    /\ PositionOf(board, 1) = <<400, 0>>

\* C19: a pointer-down on an item followed by a pointer-up with no
\* pointer-move in between is a no-op: the pointer-up changes no item and
\* commits no history entry.
C19_ZeroSizeDragIsNoOp ==
    [][(InGesture /\ ~pointer_moved /\ SelectUp) =>
           /\ board'.items = board.items
           /\ board'.history = board.history
           /\ board'.history_index = board.history_index]_vars

\* the ids the rectangle query returns for the marquee in progress
MarqueeMatched ==
    LET start == input_state.start
        current == input_state.current
        lo == screen_to_canvas(<<Min(start[1], current[1]),
                                 Min(start[2], current[2])>>,
                               board.canvas_offset, board.zoom)
        hi == screen_to_canvas(<<Max(start[1], current[1]),
                                 Max(start[2], current[2])>>,
                               board.canvas_offset, board.zoom)
    IN  query_items_in_rect(board, lo[1], lo[2], hi[1], hi[2])

MarqueeAboveThreshold ==
    /\ is_marquee_selecting(input_state)
    /\ \/ Abs(input_state.current[1] - input_state.start[1]) > MIN_MARQUEE_SIZE
       \/ Abs(input_state.current[2] - input_state.start[2]) > MIN_MARQUEE_SIZE

\* C20: the pointer-up that finalizes a marquee above the threshold changes
\* the selection only for the ids the rectangle query returns: without the
\* modifier every matched id is selected afterwards, with the modifier every
\* matched id has its membership toggled, and every id not matched keeps its
\* membership.
C20_MarqueeSelectsMatched ==
    [][\A p \in SelectPoints, shift \in BOOLEAN, save_ok \in BOOLEAN :
          (/\ MarqueeAboveThreshold
           /\ downs' = downs
           /\ Becomes(handle_mouse_up(St, p, shift, save_ok))) =>
             \A id \in ItemIds(board) \cup selected_items \cup selected_items' :
                 (id \in selected_items') <=>
                     IF id \in MarqueeMatched
                     THEN IF shift THEN id \notin selected_items ELSE TRUE
                     ELSE id \in selected_items]_vars

\* a marquee held with the modifier over the first item has been released:
\* no history entry was added, so no drag took place, and the first item has
\* left the selection while the second is in it
C20_Witness ==
    /\ is_idle(input_state)
    /\ downs = 1
    /\ pointer_moved
    /\ Len(board.history) = 3
    /\ selected_items = {1}


\* C29: a pointer-down that enters DraggingItems leaves the primary item of
\* the gesture in the selection.
C29_DragPrimaryIsSelected ==
    [][(SelectDown /\ is_dragging_items(input_state')) =>
          input_state'.primary_item \in selected_items']_vars



(***************************************************************************)
(* The session specification: the select-tool pointer events while a board *)
(* is open, leaving the board and opening a board                          *)
(* (src/src/app/board_management.rs).                                      *)
(***************************************************************************)
\* Board::load: what the store can hold, a new board or the two-item board
StoredBoards ==
    {Board_new,
     add_item(add_item(Board_new, <<0, 0>>, TextContent), <<400, 0>>, TextContent)}

\* Humanboard::go_home: the board is saved and dropped (the dropped board is
\* held as the empty board and read by nothing while the view is Landing)
GoHome ==
    /\ \E save_ok \in BOOLEAN :
          save_failed' = IF view = "Board" THEN ~save_ok ELSE save_failed
    /\ board' = Board_new
    /\ preview' = NoPanel
    /\ webviews' = [webviews EXCEPT !.youtube = {}]
    /\ view' = "Landing"
    /\ selected_items' = {}
    /\ UNCHANGED <<input_state, tool_selected, drawing_start, drawing_current,
                   downs, index, shadow, index_op, now, ticks, observed,
                   pointer_moved, calls, coords, lazy>>

\* Humanboard::open_board
OpenBoard ==
    /\ \E b \in StoredBoards : board' = b
    /\ view' = "Board"
    /\ UNCHANGED <<selected_items, input_state, tool_selected, drawing_start,
                   drawing_current, preview, save_failed, downs, index, shadow,
                   index_op, webviews, now, ticks, observed, pointer_moved, calls, coords, lazy>>

NextSession ==
    \/ view = "Board" /\ (SelectDown \/ SelectMove \/ SelectUp)
    \/ GoHome
    \/ OpenBoard

SpecSession == InitSelect /\ [][NextSession]_vars

\* C21: every id in the selection is the id of an item of the open scene,
\* and nothing is selected while no board is open.
C21_SelectionInScene ==
    /\ view = "Board" => selected_items \subseteq ItemIds(board)
    /\ view = "Landing" => selected_items = {}

\* the item a drag or resize gesture in progress is about
GestureTarget ==
    IF is_resizing(input_state) THEN input_state.item_id
    ELSE input_state.primary_item

\* C22: a pointer-move handled while the item of the drag or resize gesture
\* in progress is no longer in the scene changes nothing in the scene and
\* resets the input state to Idle.
C22_VanishedTargetResets ==
    [][(/\ InGesture
        /\ GestureTarget \notin ItemIds(board)
        /\ view = "Board"
        /\ SelectMove) =>
           /\ board' = board
           /\ is_idle(input_state')]_vars

\* C27: a flush_save that fails leaves the scene and its history as they
\* were (on leaving the board too, where the dropped board is the empty
\* board of the Landing view), and the pointer handlers act the same after a
\* failed save as after a successful one.
C27_FailedSaveKeepsScene ==
    [][/\ \A p \in SelectPoints, shift \in BOOLEAN :
             LET ok == handle_mouse_up(St, p, shift, TRUE)
                 failed == handle_mouse_up(St, p, shift, FALSE)
                 after(flag) == [St EXCEPT !.save_failed = flag]
             IN  /\ [failed EXCEPT !.save_failed = ok.save_failed] = ok
                 /\ [handle_mouse_down(after(TRUE), p, shift, 1)
                        EXCEPT !.save_failed = FALSE]
                      = handle_mouse_down(after(FALSE), p, shift, 1)
                 /\ [handle_mouse_move(after(TRUE), p)
                        EXCEPT !.save_failed = FALSE]
                      = handle_mouse_move(after(FALSE), p)
       /\ (GoHome /\ view = "Board" /\ save_failed') => board' = board]_vars


(***************************************************************************)
(* The history specification: Board::push_history, undo and redo on a     *)
(* board of one item, as the tests call them                               *)
(* (tests/it/integration/undo_redo_tests.rs): each commit follows a move   *)
(* of the item to a place no stored snapshot has.  The run starts from a   *)
(* history that earlier commits have filled to a given length.             *)
(***************************************************************************)
\* the largest x any snapshot or the scene has put an item at
MaxX(items_seq) ==
    LET xs == {0} \cup {items_seq[i][1].position[1] :
                           i \in {j \in DOMAIN items_seq : items_seq[j] # <<>>}}
    IN  CHOOSE m \in xs : \A x \in xs : x <= m

\* board.items[0].position = ...; board.push_history()
move_and_commit(b) ==
    LET x == MaxX(Append(b.history, b.items)) + 1
    IN  push_history([b EXCEPT !.items =
                         [i \in DOMAIN b.items |->
                             IF i = 1 THEN [b.items[i] EXCEPT !.position = <<x, 0>>]
                             ELSE b.items[i]]])

\* board_with_text followed by n commits, each of the item moved to x = 1,
\* 2, ..., n: what n calls of move_and_commit leave
CommittedBoard(n) ==
    LET b0 == add_item(Board_new, <<0, 0>>, TextContent)
        at(x) == <<[b0.items[1] EXCEPT !.position = <<x, 0>>]>>
        all == <<b0.history[1]>> \o [k \in 1..(n + 1) |-> at(k - 1)]
        len == Min(Len(all), MAX_HISTORY_STATES + 1)
    IN  [b0 EXCEPT !.items = at(n),
                   !.history = SubSeq(all, Len(all) - len + 1, Len(all)),
                   !.history_index = len - 1]

\* commits before the run: none, two, one short of the bound, at the bound,
\* past the bound
HistoryFills == {0, 2, MAX_HISTORY_STATES - 2, MAX_HISTORY_STATES - 1,
                 MAX_HISTORY_STATES + 2}

InitHistory ==
    /\ \E n \in HistoryFills : board = CommittedBoard(n)
    /\ selected_items = {}
    /\ input_state = Idle
    /\ tool_selected = "Select"
    /\ drawing_start = None
    /\ drawing_current = None
    /\ preview = NoPanel
    /\ save_failed = FALSE
    /\ downs = 0
    /\ index = SpatialIndex_new
    /\ shadow = <<>>
    /\ index_op = "none"
    /\ webviews = WebViewManager_new
    /\ now = 0
    /\ ticks = 0
    /\ observed = [far_since |-> <<>>, destroyed |-> {}]
    /\ pointer_moved = FALSE
    /\ view = "Board"
    /\ calls = <<>>
    /\ coords = NoConversion
    /\ lazy = NoSource

HistoryFrame ==
    UNCHANGED <<selected_items, input_state, tool_selected, drawing_start,
                drawing_current, preview, save_failed, downs, index, shadow,
                index_op, webviews, now, ticks, observed, pointer_moved, view, coords, lazy>>

HistoryCommit ==
    /\ Len(calls) < MaxHistoryCalls
    /\ board.items # <<>>
    /\ board' = move_and_commit(board)
    /\ calls' = Append(calls, "commit")
    /\ HistoryFrame

HistoryUndo ==
    /\ Len(calls) < MaxHistoryCalls
    /\ board' = undo(board).board
    /\ calls' = Append(calls, IF undo(board).ok THEN "undo_true" ELSE "undo_false")
    /\ HistoryFrame

HistoryRedo ==
    /\ Len(calls) < MaxHistoryCalls
    /\ board' = redo(board).board
    /\ calls' = Append(calls, IF redo(board).ok THEN "redo_true" ELSE "redo_false")
    /\ HistoryFrame

NextHistory == HistoryCommit \/ HistoryUndo \/ HistoryRedo

SpecHistory == InitHistory /\ [][NextHistory]_vars

LastCall == IF calls = <<>> THEN "none" ELSE calls[Len(calls)]

\* C23: a commit discards every entry ahead of the cursor before it appends:
\* the cursor is then on the last entry, and a redo that follows the commit
\* returns false and leaves the board as it is.
C23_CommitPrunesRedo ==
    [][/\ HistoryCommit =>
             /\ board'.history_index = Len(board'.history) - 1
             /\ board'.history[Len(board'.history)] = board'.items
             /\ \A i \in 1..(Len(board'.history) - 1) :
                   \E j \in 1..(board.history_index + 1) :
                       board'.history[i] = board.history[j]
       /\ (HistoryRedo /\ LastCall = "commit") =>
             /\ calls' = Append(calls, "redo_false")
             /\ board' = board]_vars

\* undo, undo, commit, redo: the redo returned false
C23_Witness ==
    /\ Len(calls) = 4
    /\ calls = <<"undo_true", "undo_true", "commit", "redo_false">>
    /\ Len(board.history) = 3

\* C24: undo on the first entry and redo on the last return false and leave
\* the scene, the history and the cursor as they are, each time they are
\* called.
C24_BoundaryCallsAreNoOps ==
    [][/\ (HistoryUndo /\ board.history_index = 0) =>
             /\ calls' = Append(calls, "undo_false")
             /\ board' = board
       /\ (HistoryRedo /\ board.history_index = Len(board.history) - 1) =>
             /\ calls' = Append(calls, "redo_false")
             /\ board' = board]_vars

\* the one item was undone away, and two more undos returned false on the
\* empty scene
C24_Witness ==
    /\ Len(calls) >= 3
    /\ SubSeq(calls, 1, 3) = <<"undo_true", "undo_false", "undo_false">>
    /\ board.items = <<>>
    /\ board.history_index = 0

C28_DrawingToolEntersDrawing ==
    [][(DrawDown /\ is_idle(input_state) /\ tool_selected \in DrawingTools) =>
          is_drawing(input_state')]_vars


(***************************************************************************)
(* The panel specification: the drawing specification with the preview     *)
(* panel open to the right of the canvas, the split at x = 600.            *)
(***************************************************************************)
\* on the first item, on its resize corner, on empty canvas, on the second
\* item within SPLITTER_WIDTH of the split, in the preview panel
PanelPoints == {<<100, 80>>, <<330, 130>>, <<20, 20>>, <<590, 80>>, <<700, 80>>}

InitPanel ==
    /\ board = add_item(add_item(Board_new, <<0, 0>>, TextContent),
                        <<400, 0>>, TextContent)
    /\ selected_items \in {{}, {0}}
    /\ input_state = Idle
    /\ tool_selected = "Select"
    /\ drawing_start = None
    /\ drawing_current = None
    /\ preview = Panel("Vertical", 400)
    /\ save_failed = FALSE
    /\ downs = 0
    /\ index = SpatialIndex_new
    /\ shadow = <<>>
    /\ index_op = "none"
    /\ webviews = WebViewManager_new
    /\ now = 0
    /\ ticks = 0
    /\ observed = [far_since |-> <<>>, destroyed |-> {}]
    /\ pointer_moved = FALSE
    /\ view = "Board"
    /\ calls = <<>>
    /\ coords = NoConversion
    /\ lazy = NoSource

PanelDown ==
    /\ downs < MaxGestures
    /\ \E p \in PanelPoints, shift \in BOOLEAN :
          Becomes(handle_mouse_down(St, p, shift, 1))
    /\ downs' = downs + 1
    /\ UNCHANGED <<index, shadow, index_op, webviews, now, ticks, observed,
                   pointer_moved, view, calls, coords, lazy>>

PanelMove ==
    /\ \E p \in PanelPoints : Becomes(handle_mouse_move(St, p))
    /\ UNCHANGED <<downs, index, shadow, index_op, webviews, now, ticks, observed,
                   pointer_moved, view, calls, coords, lazy>>

PanelUp ==
    /\ \E p \in PanelPoints, shift \in BOOLEAN, save_ok \in BOOLEAN :
          Becomes(handle_mouse_up(St, p, shift, save_ok))
    /\ UNCHANGED <<downs, index, shadow, index_op, webviews, now, ticks, observed,
                   pointer_moved, view, calls, coords, lazy>>

NextPanel == SelectTool \/ PanelDown \/ PanelMove \/ PanelUp

SpecPanel == InitPanel /\ [][NextPanel]_vars

\* the pointer-down handled in this step was at p, with a text, arrow or
\* shape tool selected
DrawingToolDownAt(p, shift) ==
    /\ tool_selected \in DrawingTools
    /\ downs' = downs + 1
    /\ Becomes(handle_mouse_down(St, p, shift, 1))

\* the step started a drawing gesture at p and nothing else: no input mode
\* was entered, no item is selected, the scene is as it was
StartsDrawingOnly(p) ==
    /\ drawing_start' = Some(p)
    /\ drawing_current' = Some(p)
    /\ input_state' = input_state
    /\ selected_items' = {}
    /\ board' = board

C34_OnlyItemGesturesCommit ==
    [][(PanelUp /\ ~drawing_start.some) =>
          /\ (board'.history # board.history
                \/ board'.history_index # board.history_index) =>
                (is_dragging_items(input_state) \/ is_resizing(input_state))
          /\ (\/ is_panning(input_state)
              \/ is_splitter_dragging(input_state)
              \/ is_marquee_selecting(input_state)) =>
                /\ board'.history = board.history
                /\ board'.history_index = board.history_index]_vars


(***************************************************************************)
(* The editing specification: the drawing specification with undo and redo *)
(* called between gestures.                                                *)
(***************************************************************************)
EditUndo == Settled /\ HistoryUndo

EditRedo == Settled /\ HistoryRedo

NextEdit == NextDraw \/ EditUndo \/ EditRedo

SpecEdit == InitDraw /\ [][NextEdit]_vars

\* C26: no step alters a stored snapshot at or before the cursor, an undo
\* leaves the scene as the snapshot it returns to was committed, and a redo
\* that follows an undo leaves the scene the undo was called in.
C26_UndoRedoRoundTrip ==
    [][/\ \A i \in 1..(board.history_index + 1) :
             i <= Len(board'.history) => board'.history[i] = board.history[i]
       /\ (EditUndo /\ undo(board).ok) =>
             /\ board'.items = board.history[board.history_index]
             /\ redo(board').ok
             /\ redo(board').board.items = board.items]_vars


(***************************************************************************)
(* The resize specification: a board of one item of each content type the  *)
(* resize code tells apart; the pointer goes down on the item's resize     *)
(* corner, moves by the deltas below and is released.                      *)
(***************************************************************************)
ResizeContents ==
    {MarkdownContent, TextBoxContent(DEFAULT_FONT_SIZE), ShapeContent,
     TextContent, ArrowContent(<<120, -60>>), ArrowContent(<<-30, 10>>)}

\* pointer displacements from the start of the gesture, on each axis
ResizeDeltas == {-1000, -150, -60, -5, 0, 30}

InitResize ==
    /\ \E c \in ResizeContents : board = add_item(Board_new, <<0, 0>>, c)
    /\ selected_items = {}
    /\ input_state = Idle
    /\ tool_selected = "Select"
    /\ drawing_start = None
    /\ drawing_current = None
    /\ preview = NoPanel
    /\ save_failed = FALSE
    /\ downs = 0
    /\ index = SpatialIndex_new
    /\ shadow = <<>>
    /\ index_op = "none"
    /\ webviews = WebViewManager_new
    /\ now = 0
    /\ ticks = 0
    /\ observed = [far_since |-> <<>>, destroyed |-> {}]
    /\ pointer_moved = FALSE
    /\ view = "Board"
    /\ calls = <<>>
    /\ coords = NoConversion
    /\ lazy = NoSource

\* the one item of the board
ResizedItem == board.items[1]

\* 5 px inside the bottom-right corner of the item
CornerPoint ==
    <<DOCK_WIDTH + ResizedItem.position[1] + ResizedItem.size[1] - 5,
      HEADER_HEIGHT + ResizedItem.position[2] + ResizedItem.size[2] - 5>>

ResizeDown ==
    /\ downs < MaxGestures
    /\ is_idle(input_state)
    /\ Becomes(handle_mouse_down(St, CornerPoint, FALSE, 1))
    /\ downs' = downs + 1
    /\ UNCHANGED <<index, shadow, index_op, webviews, now, ticks, observed,
                   pointer_moved, view, calls, coords, lazy>>

\* the pointer position a displacement of the gesture stands for
ResizePoint(dx, dy) ==
    <<input_state.start_pos[1] + dx, input_state.start_pos[2] + dy>>

ResizeMove ==
    /\ is_resizing(input_state)
    /\ \E dx \in ResizeDeltas, dy \in ResizeDeltas :
          Becomes(handle_mouse_move(St, ResizePoint(dx, dy)))
    /\ UNCHANGED <<downs, index, shadow, index_op, webviews, now, ticks, observed,
                   pointer_moved, view, calls, coords, lazy>>

ResizeUp ==
    /\ is_resizing(input_state)
    /\ \E save_ok \in BOOLEAN :
          Becomes(handle_mouse_up(St, CornerPoint, FALSE, save_ok))
    /\ UNCHANGED <<downs, index, shadow, index_op, webviews, now, ticks, observed,
                   pointer_moved, view, calls, coords, lazy>>

NextResize == ResizeDown \/ ResizeMove \/ ResizeUp

SpecResize == InitResize /\ [][NextResize]_vars

\* the least width and height a resize leaves an item of the kind with
MinSize(kind) ==
    IF kind = "Markdown" THEN <<100, (100 * 36) \div 200>>
    ELSE IF kind = "Arrow" THEN <<MIN_ARROW_SIZE, MIN_ARROW_SIZE>>
    ELSE <<MIN_ITEM_SIZE, MIN_ITEM_SIZE>>

\* C31: during a resize gesture, after every pointer-move, the width and the
\* height of the resized item are positive and at least the minimum of its
\* content type.
C31_ResizeKeepsMinimum ==
    [][ResizeMove =>
          LET item == get_item(board', input_state.item_id)
              least == MinSize(item.content.kind)
          IN  /\ item.size[1] > 0 /\ item.size[2] > 0
              /\ item.size[1] >= least[1]
              /\ item.size[2] >= least[2]]_vars

\* an arrow dragged far up and left has stopped at its minimum
C31_Witness ==
    /\ is_resizing(input_state)
    /\ ResizedItem.content.kind = "Arrow"
    /\ input_state.start_size = <<120, 60>>
    /\ ResizedItem.size = <<MIN_ARROW_SIZE, MIN_ARROW_SIZE>>


\* the board with the stored end offset of the arrow pointing the opposite
\* way on both axes
MirroredArrow ==
    [St EXCEPT !.board =
        set_item(board, ResizedItem.id,
                 [ResizedItem EXCEPT !.content.end_offset =
                     <<0 - ResizedItem.content.end_offset[1],
                       0 - ResizedItem.content.end_offset[2]>>])]

\* C32: while an arrow is resized, the signs of the end offset a
\* pointer-move leaves are a matter of the pointer displacement and not of
\* the end offset stored before the move: the same move handled with the
\* stored end offset mirrored leaves the same signs.
C32_ArrowSignsFromDelta ==
    (/\ is_resizing(input_state)
     /\ ResizedItem.content.kind = "Arrow"
     /\ ResizedItem.content.end_offset[1] # 0
     /\ ResizedItem.content.end_offset[2] # 0) =>
        \A dx \in ResizeDeltas, dy \in ResizeDeltas :
           LET p == ResizePoint(dx, dy)
               as_stored == handle_mouse_move(St, p).board.items[1]
               mirrored == handle_mouse_move(MirroredArrow, p).board.items[1]
           IN  arrow_signs(as_stored.content.end_offset)
                  = arrow_signs(mirrored.content.end_offset)


(***************************************************************************)
(* Coordinate conversion in f32 (src/src/input/coords.rs).  The handlers   *)
(* above work in whole pixels at zoom 1, where the conversions are exact;  *)
(* here every subtraction and addition rounds as f32 does.  A screen value *)
(* is a whole number of 1/1024 px, a canvas value a whole number of        *)
(* 1/2048 px, and the zoom is a power of two, so that the division and the *)
(* multiplication by the zoom are exact in f32 and every value met is on   *)
(* the grid.                                                               *)
(***************************************************************************)
RECURSIVE Pow2(_)
Pow2(n) == IF n = 0 THEN 1 ELSE 2 * Pow2(n - 1)

\* the f32 nearest to n (24 significant bits, ties to the even significand)
F32Round(n) ==
    LET a == Abs(n)
        e == CHOOSE k \in 0..7 :
                /\ a < Pow2(24 + k)
                /\ \A j \in 0..(k - 1) : a >= Pow2(24 + j)
        q == Pow2(e)
        lo == (a \div q) * q
        r == a - lo
        up == r * 2 > q \/ (r * 2 = q /\ (a \div q) % 2 = 1)
        m == IF up THEN lo + q ELSE lo
    IN  IF n >= 0 THEN m ELSE 0 - m

\* px as a screen value
Px(whole, frac1024) == whole * 1024 + frac1024

\* x / zoom as a canvas value and c * zoom as a screen value, zoom = 2^zl
DivZoom(x, zl) == x * Pow2(1 - zl)
MulZoom(c, zl) == c \div Pow2(1 - zl)

\* CoordinateConverter::screen_to_canvas
f32_screen_to_canvas(screen_pos, canvas_offset, zl) ==
    <<DivZoom(F32Round(F32Round(screen_pos[1] - Px(DOCK_WIDTH, 0))
                          - canvas_offset[1]), zl),
      DivZoom(F32Round(F32Round(screen_pos[2] - Px(HEADER_HEIGHT, 0))
                          - canvas_offset[2]), zl)>>

\* CoordinateConverter::canvas_to_screen
f32_canvas_to_screen(canvas_pos, canvas_offset, zl) ==
    <<F32Round(F32Round(MulZoom(canvas_pos[1], zl) + canvas_offset[1])
                  + Px(DOCK_WIDTH, 0)),
      F32Round(F32Round(MulZoom(canvas_pos[2], zl) + canvas_offset[2])
                  + Px(HEADER_HEIGHT, 0))>>

\* pointer positions in a window, with fractions of a pixel
ScreenPoints ==
    {<<Px(0, 0), Px(0, 0)>>, <<Px(100, 1), Px(80, 512)>>,
     <<Px(1223, 101), Px(699, 1023)>>, <<Px(1999, 3), Px(1200, 7)>>}

\* pan offsets handle_scroll can have accumulated (transform.rs 88-101): none,
\* a screen or two, and tens of thousands of pixels either way
PanOffsets ==
    {<<Px(0, 0), Px(0, 0)>>, <<Px(-300, 512), Px(150, 256)>>,
     <<Px(2000, 1), Px(-3000, 1023)>>, <<Px(-13000, 256), Px(9000, 768)>>,
     <<Px(40000, 0), Px(-35000, 0)>>, <<Px(-100000, 0), Px(70000, 512)>>}

\* zoom 1/2, 1 and 2, within MIN_ZOOM = 0.1 and MAX_ZOOM = 5
ZoomLog2s == {-1, 0, 1}

InitCoords ==
    /\ board = Board_new
    /\ selected_items = {}
    /\ input_state = Idle
    /\ tool_selected = "Select"
    /\ drawing_start = None
    /\ drawing_current = None
    /\ preview = NoPanel
    /\ save_failed = FALSE
    /\ downs = 0
    /\ index = SpatialIndex_new
    /\ shadow = <<>>
    /\ index_op = "none"
    /\ webviews = WebViewManager_new
    /\ now = 0
    /\ ticks = 0
    /\ observed = [far_since |-> <<>>, destroyed |-> {}]
    /\ pointer_moved = FALSE
    /\ view = "Board"
    /\ calls = <<>>
    /\ \E p \in ScreenPoints, o \in PanOffsets, zl \in ZoomLog2s :
          coords = [phase |-> "screen", p |-> p, o |-> o, zl |-> zl]
    /\ lazy = NoSource

CoordsFrame ==
    UNCHANGED <<board, selected_items, input_state, tool_selected,
                drawing_start, drawing_current, preview, save_failed, downs,
                index, shadow, index_op, webviews, now, ticks, observed,
                pointer_moved, view, calls, lazy>>

ToCanvas ==
    /\ coords.phase = "screen"
    /\ coords' = [phase |-> "canvas", p |-> coords.p, o |-> coords.o,
                  zl |-> coords.zl,
                  canvas |-> f32_screen_to_canvas(coords.p, coords.o, coords.zl)]
    /\ CoordsFrame

ToScreen ==
    /\ coords.phase = "canvas"
    /\ coords' = [phase |-> "back", p |-> coords.p, o |-> coords.o,
                  zl |-> coords.zl, canvas |-> coords.canvas,
                  back |-> f32_canvas_to_screen(coords.canvas, coords.o,
                                                coords.zl)]
    /\ CoordsFrame

NextCoords == ToCanvas \/ ToScreen

SpecCoords == InitCoords /\ [][NextCoords]_vars

\* |a - b| <= 1e-3 px for screen values
Within1e3(a, b) == Abs(a - b) * 1000 <= 1024

\* C33: a screen point converted to canvas space and back is the point it
\* was, within 1e-3 px on each axis, for every pan offset and zoom.
C33_RoundTripWithin1e3 ==
    coords.phase = "back" =>
       /\ Within1e3(coords.back[1], coords.p[1])
       /\ Within1e3(coords.back[2], coords.p[2])


(***************************************************************************)
(* LazyDataSource (src/src/data/lazy_source.rs).  The frame is immutable;  *)
(* row i of it is written i.  chunk_cache is a map from chunk index to     *)
(* [rows, last_access] behind a lock; Instant::now() is a clock that every *)
(* access advances.  get_rows runs on several threads: each get_chunk      *)
(* takes the lock once to look the chunk up and, on a miss, once more to   *)
(* store what it loaded, and other threads run in between.                 *)
(***************************************************************************)
\* rows of the frame: 22 full chunks and a chunk of 50 rows
LazyRowCount == 2250

\* LazyDataSource::load_rows_from_frame: frame.slice(start, count)
load_rows_from_frame(row_count, start, count) ==
    [k \in 1..Min(count, Max(row_count - start, 0)) |-> start + k - 1]

\* get_chunk 309-313: what a miss loads
load_chunk(row_count, chunk_idx) ==
    LET chunk_start == chunk_idx * CHUNK_SIZE
        chunk_count == Min(CHUNK_SIZE, Max(row_count - chunk_start, 0))
    IN  load_rows_from_frame(row_count, chunk_start, chunk_count)

\* get_chunk 299-307: a hit refreshes last_access
cache_touch(src, chunk_idx) ==
    [src EXCEPT !.chunk_cache[chunk_idx].last_access = src.clock + 1,
                !.clock = src.clock + 1]

\* the chunks min_by_key can return: those with the least last_access
oldest_chunks(cache) ==
    {i \in DOMAIN cache :
        \A j \in DOMAIN cache : cache[i].last_access <= cache[j].last_access}

\* a store that never evicts
cache_store_no_evict(src, chunk_idx, rows, victim) ==
    [src EXCEPT !.chunk_cache =
                    MapInsert(src.chunk_cache, chunk_idx,
                              [rows |-> rows, last_access |-> src.clock + 1]),
                !.clock = src.clock + 1]

\* get_chunk 316-340: evict the oldest chunk of a full cache, then insert
cache_store(src, chunk_idx, rows, victim) ==
    LET cache == src.chunk_cache
        kept == IF Cardinality(DOMAIN cache) >= MAX_CACHED_CHUNKS
                   /\ DOMAIN cache # {}
                THEN MapRemove(cache, victim) ELSE cache
    IN  [src EXCEPT !.chunk_cache =
                        MapInsert(kept, chunk_idx,
                                  [rows |-> rows, last_access |-> src.clock + 1]),
                    !.clock = src.clock + 1]

\* a slice that always starts at the head of the chunk
chunk_slice_from_head(chunk, chunk_idx, start, end) ==
    LET chunk_start == chunk_idx * CHUNK_SIZE
        end_chunk == (end - 1) \div CHUNK_SIZE
        local_end == IF chunk_idx = end_chunk THEN end - chunk_start
                     ELSE CHUNK_SIZE
    IN  SubSeq(chunk, 1, Min(local_end, Len(chunk)))

\* get_rows 272-289: the rows of the chunk that fall in start..end
chunk_slice(chunk, chunk_idx, start, end) ==
    LET chunk_start == chunk_idx * CHUNK_SIZE
        start_chunk == start \div CHUNK_SIZE
        end_chunk == (end - 1) \div CHUNK_SIZE
        local_start == IF chunk_idx = start_chunk THEN start - chunk_start
                       ELSE 0
        local_end == IF chunk_idx = end_chunk THEN end - chunk_start
                     ELSE CHUNK_SIZE
    IN  SubSeq(chunk, local_start + 1, Min(local_end, Len(chunk)))

\* get_rows 256-266: a call that has yet to fetch its first chunk
get_rows_begin(row_count, start, count) ==
    LET end == Min(start + count, row_count)
    IN  IF start >= end
        THEN [pc |-> "done", start |-> start, count |-> count, end |-> end,
              chunk_idx |-> 0, loaded |-> <<>>, result |-> <<>>]
        ELSE [pc |-> "lookup", start |-> start, count |-> count, end |-> end,
              chunk_idx |-> start \div CHUNK_SIZE, loaded |-> <<>>,
              result |-> <<>>]

\* get_rows 268-292: the chunk is sliced into the result and the loop goes
\* on to the next chunk or ends
get_rows_take(call, chunk) ==
    LET result == call.result
                     \o chunk_slice(chunk, call.chunk_idx, call.start, call.end)
    IN  IF call.chunk_idx = (call.end - 1) \div CHUNK_SIZE
        THEN [call EXCEPT !.pc = "done", !.result = result, !.loaded = <<>>]
        ELSE [call EXCEPT !.pc = "lookup", !.result = result,
                          !.loaded = <<>>,
                          !.chunk_idx = call.chunk_idx + 1]

NoCall ==
    [pc |-> "idle", start |-> 0, count |-> 0, end |-> 0, chunk_idx |-> 0,
     loaded |-> <<>>, result |-> <<>>]

LazyThreads == {1, 2}

\* chunks cached by a scan from row 0 before the run: none, one short of
\* the bound, the bound
LazyFills == {0, MAX_CACHED_CHUNKS - 1, MAX_CACHED_CHUNKS}

\* <<start, count>>: within a cached chunk, across chunks 19 and 20, chunk
\* 20 alone, across the last two chunks and past the end, at the end
LazyRequests ==
    {<<0, 50>>, <<1950, 100>>, <<2000, 100>>, <<2190, 200>>,
     <<LazyRowCount, 10>>}

InitLazy ==
    /\ board = Board_new
    /\ selected_items = {}
    /\ input_state = Idle
    /\ tool_selected = "Select"
    /\ drawing_start = None
    /\ drawing_current = None
    /\ preview = NoPanel
    /\ save_failed = FALSE
    /\ downs = 0
    /\ index = SpatialIndex_new
    /\ shadow = <<>>
    /\ index_op = "none"
    /\ webviews = WebViewManager_new
    /\ now = 0
    /\ ticks = 0
    /\ observed = [far_since |-> <<>>, destroyed |-> {}]
    /\ pointer_moved = FALSE
    /\ view = "Board"
    /\ calls = <<>>
    /\ coords = NoConversion
    /\ \E n \in LazyFills :
          lazy = [open |-> TRUE,
                  row_count |-> LazyRowCount,
                  chunk_cache |->
                      [c \in 0..(n - 1) |->
                          [rows |-> load_chunk(LazyRowCount, c),
                           last_access |-> c + 1]],
                  clock |-> n,
                  threads |-> [t \in LazyThreads |-> NoCall],
                  evicted |-> {},
                  started |-> 0]

LazyFrame ==
    UNCHANGED <<board, selected_items, input_state, tool_selected,
                drawing_start, drawing_current, preview, save_failed, downs,
                index, shadow, index_op, webviews, now, ticks, observed,
                pointer_moved, view, calls, coords>>

\* a thread calls get_rows(start, count)
GetRows ==
    /\ lazy.started < MaxLazyCalls
    /\ \E t \in LazyThreads, r \in LazyRequests :
          /\ lazy.threads[t].pc \in {"idle", "done"}
          /\ lazy' = [lazy EXCEPT
                         !.threads[t] =
                             get_rows_begin(lazy.row_count, r[1], r[2]),
                         !.started = lazy.started + 1]
    /\ LazyFrame

\* get_chunk, first critical section: a hit returns the cached rows, a miss
\* loads the chunk from the frame
ChunkLookup ==
    /\ \E t \in LazyThreads :
          LET call == lazy.threads[t]
              c == call.chunk_idx
          IN  /\ call.pc = "lookup"
              /\ lazy' =
                   IF c \in DOMAIN lazy.chunk_cache
                   THEN [cache_touch(lazy, c) EXCEPT
                            !.threads[t] =
                                get_rows_take(call, lazy.chunk_cache[c].rows)]
                   ELSE [lazy EXCEPT
                            !.threads[t] =
                                [call EXCEPT
                                    !.pc = "store",
                                    !.loaded = load_chunk(lazy.row_count, c)]]
    /\ LazyFrame

\* get_chunk, second critical section: the loaded chunk is cached
ChunkStore ==
    /\ \E t \in LazyThreads :
          LET call == lazy.threads[t]
              full == Cardinality(DOMAIN lazy.chunk_cache) >= MAX_CACHED_CHUNKS
          IN  /\ call.pc = "store"
              /\ \E victim \in (IF full THEN oldest_chunks(lazy.chunk_cache)
                                ELSE {call.chunk_idx}) :
                    lazy' = [cache_store(lazy, call.chunk_idx, call.loaded,
                                         victim)
                                EXCEPT !.threads[t] =
                                           get_rows_take(call, call.loaded),
                                       !.evicted =
                                           IF full THEN lazy.evicted \cup {victim}
                                           ELSE lazy.evicted]
    /\ LazyFrame

\* LazyDataSource::clear_cache
ClearCache ==
    /\ lazy.started < MaxLazyCalls
    /\ lazy.chunk_cache # <<>>
    /\ lazy' = [lazy EXCEPT !.chunk_cache = <<>>,
                            !.started = lazy.started + 1]
    /\ LazyFrame

NextLazy == GetRows \/ ChunkLookup \/ ChunkStore \/ ClearCache

SpecLazy == InitLazy /\ [][NextLazy]_vars

\* C35: the chunk cache never holds more than MAX_CACHED_CHUNKS chunks,
\* whatever get_rows calls the threads have made and however their lookups
\* and stores interleave.
C35_CacheBounded ==
    Cardinality(DOMAIN lazy.chunk_cache) <= MAX_CACHED_CHUNKS

\* two threads missed on chunk 20 of a full cache and both have stored it
C35_Witness ==
    /\ Cardinality(lazy.evicted) = 2
    /\ 20 \in DOMAIN lazy.chunk_cache
    /\ \A t \in LazyThreads : lazy.threads[t].pc = "done"
    /\ \A t \in LazyThreads : lazy.threads[t].start = 2000

\* the rows start up to but excluding min(start + count, row_count)
ExpectedRows(start, count, row_count) ==
    [k \in 1..Max(Min(start + count, row_count) - start, 0) |-> start + k - 1]

\* C36: a get_rows call that has returned has returned the rows start up to
\* but excluding min(start + count, row_count), in order, whatever was
\* cached, evicted or cleared before and during the call.
C36_GetRowsExact ==
    \A t \in LazyThreads :
       lazy.threads[t].pc = "done" =>
          lazy.threads[t].result =
             ExpectedRows(lazy.threads[t].start, lazy.threads[t].count,
                          lazy.row_count)

\* a call across chunks 19 and 20 has returned after a hit on chunk 19 and
\* a miss on chunk 20 that evicted a chunk
C36_Witness ==
    \E t \in LazyThreads :
       /\ lazy.threads[t].pc = "done"
       /\ lazy.threads[t].start = 1950
       /\ Len(lazy.threads[t].result) = 100
       /\ lazy.evicted # {}
       /\ 20 \in DOMAIN lazy.chunk_cache


(***************************************************************************)
(* Webview lifecycle (src/src/app/preview_webviews.rs).  The three ensure_ *)
(* functions are the same text over the youtube, audio and video maps and  *)
(* share out_of_range_since; the YouTube one is modelled, with a board     *)
(* open.  A webview is its id in webviews.youtube.                         *)
(***************************************************************************)
\* <<vp_left, vp_top, vp_right, vp_bottom>> in canvas coordinates
get_viewport_bounds(b, pv) ==
    LET window_width == WindowSize[1]
        window_height == WindowSize[2]
        canvas_width == IF pv.open /\ pv.split = "Vertical"
                        THEN ((1000 - pv.size) * window_width) \div 1000
                        ELSE window_width
        canvas_height == IF pv.open /\ pv.split = "Horizontal"
                         THEN ((1000 - pv.size) * window_height) \div 1000
                         ELSE window_height
        offset_x == b.canvas_offset[1]
        offset_y == b.canvas_offset[2]
    IN  <<(0 - offset_x) \div b.zoom, (0 - offset_y) \div b.zoom,
          (canvas_width - offset_x) \div b.zoom,
          (canvas_height - offset_y) \div b.zoom>>

item_distance_to_viewport(item_pos, item_size, viewport) ==
    LET dist_left == viewport[1] - (item_pos[1] + item_size[1])
        dist_right == item_pos[1] - viewport[3]
        dist_top == viewport[2] - (item_pos[2] + item_size[2])
        dist_bottom == item_pos[2] - viewport[4]
    IN  Max(Max(Max(Max(dist_left, 0), Max(dist_right, 0)), Max(dist_top, 0)),
            Max(dist_bottom, 0))

\* the ids of the board's YouTube items
youtube_ids(b) ==
    {b.items[i].id : i \in {j \in DOMAIN b.items :
                                b.items[j].content.kind = "YouTube"}}

item_distance(b, pv, id) ==
    item_distance_to_viewport(get_item(b, id).position, get_item(b, id).size,
                              get_viewport_bounds(b, pv))

\* a plausible slip: a webview whose item is gone waits like any other
item_deleted_never(b, id) == FALSE

\* preview_webviews.rs 131: the webview's item is no longer a YouTube item
item_deleted(b, id) == id \notin youtube_ids(b)

\* a plausible slip: the delay must be exceeded, not reached
unload_due_strict(t, out_since) == t - out_since > WEBVIEW_UNLOAD_DELAY_MS

\* preview_webviews.rs 148: now.duration_since(*out_since) >= unload_delay
unload_due(t, out_since) == t - out_since >= WEBVIEW_UNLOAD_DELAY_MS

\* preview_webviews.rs 97-119: webviews are created, and markers cleared, for
\* the items within the preload distance; created is the set of ids whose
\* YouTubeWebView::new succeeds
preload_webviews(wv, b, pv, created) ==
    LET near == {id \in youtube_ids(b) :
                    item_distance(b, pv, id) <= WEBVIEW_PRELOAD_DISTANCE}
    IN  [youtube |-> wv.youtube \cup (near \cap created),
         out_of_range_since |->
             [id \in DOMAIN wv.out_of_range_since \ near |->
                 wv.out_of_range_since[id]]]

\* preview_webviews.rs 137-142: the webviews whose item is found among the
\* YouTube items, beyond the unload distance
far_webviews(wv, b, pv) ==
    {id \in wv.youtube \cap youtube_ids(b) :
        item_distance(b, pv, id) > WEBVIEW_UNLOAD_DISTANCE}

\* preview_webviews.rs 144-146: out_of_range_since.entry(id).or_insert(now)
mark_out_of_range(wv, far, t) ==
    [wv EXCEPT !.out_of_range_since =
        [id \in DOMAIN wv.out_of_range_since \cup far |->
            IF id \in DOMAIN wv.out_of_range_since
            THEN wv.out_of_range_since[id] ELSE t]]

\* preview_webviews.rs 125-152: the filter over the live webviews
ids_to_remove(wv, b, pv, t) ==
    {id \in wv.youtube :
        \/ item_deleted(b, id)
        \/ /\ id \in far_webviews(wv, b, pv)
           /\ unload_due(t, wv.out_of_range_since[id])}

\* Humanboard::ensure_youtube_webviews at instant t
ensure_youtube_webviews(wv, b, pv, t, created) ==
    LET wv1 == preload_webviews(wv, b, pv, created)
        wv2 == mark_out_of_range(wv1, far_webviews(wv1, b, pv), t)
        gone == ids_to_remove(wv2, b, pv, t)
    IN  [youtube |-> wv2.youtube \ gone,
         out_of_range_since |->
             [id \in DOMAIN wv2.out_of_range_since \ gone |->
                 wv2.out_of_range_since[id]]]

\* Board::remove_item: the item leaves the scene and the index, and the
\* removal is committed
remove_item(b, id) ==
    push_history(
        [b EXCEPT !.items = SelectSeq(b.items, LAMBDA item : item.id # id),
                  !.spatial_index = SpatialIndex_remove(b.spatial_index, id)])

(***************************************************************************)
(* The webview specification: one YouTube item at the origin, the canvas   *)
(* scrolled so that the item is in view, at and just beyond the preload    *)
(* distance, at and just beyond the unload distance; policy ticks 1 ms, one *)
(* ms less than the unload delay, or the unload delay apart.               *)
(***************************************************************************)
ScrollOffsets == {<<0, 0>>, <<-1060, 0>>, <<-1061, 0>>, <<-2560, 0>>,
                  <<-2561, 0>>}

TickSteps == {1, WEBVIEW_UNLOAD_DELAY_MS - 1, WEBVIEW_UNLOAD_DELAY_MS}

\* what a tick at instant t sees: the run of far ticks of each item goes on,
\* begins, or ends
observe_far(b, pv, far_since, t) ==
    LET far == {id \in youtube_ids(b) :
                   item_distance(b, pv, id) > WEBVIEW_UNLOAD_DISTANCE}
    IN  [id \in far |-> IF id \in DOMAIN far_since THEN far_since[id] ELSE t]

InitWebview ==
    /\ board = add_item(Board_new, <<0, 0>>, YouTubeContent)
    /\ selected_items = {}
    /\ input_state = Idle
    /\ tool_selected = "Select"
    /\ drawing_start = None
    /\ drawing_current = None
    /\ preview = NoPanel
    /\ save_failed = FALSE
    /\ downs = 0
    /\ index = SpatialIndex_new
    /\ shadow = <<>>
    /\ index_op = "none"
    /\ webviews = WebViewManager_new
    /\ now = 0
    /\ ticks = 0
    /\ observed = [far_since |-> <<>>, destroyed |-> {}]
    /\ pointer_moved = FALSE
    /\ view = "Board"
    /\ calls = <<>>
    /\ coords = NoConversion
    /\ lazy = NoSource

WebviewFrame == UNCHANGED <<selected_items, input_state, tool_selected,
                            drawing_start, drawing_current, preview,
                            save_failed, downs, index, shadow, index_op,
                            pointer_moved, view, calls, coords, lazy>>

PolicyTick ==
    /\ ticks < MaxTicks
    /\ \E dt \in TickSteps, create_ok \in BOOLEAN :
          /\ now' = now + dt
          /\ webviews' = ensure_youtube_webviews(
                             webviews, board, preview, now',
                             IF create_ok THEN youtube_ids(board) ELSE {})
    /\ ticks' = ticks + 1
    /\ observed' = [far_since |->
                        observe_far(board, preview, observed.far_since, now'),
                    destroyed |-> webviews.youtube \ webviews'.youtube]
    /\ UNCHANGED board
    /\ WebviewFrame

\* the canvas is scrolled between ticks
ScrollTo ==
    /\ \E offset \in ScrollOffsets :
          /\ offset # board.canvas_offset
          /\ board' = [board EXCEPT !.canvas_offset = offset]
    /\ UNCHANGED <<webviews, now, ticks, observed>>
    /\ WebviewFrame

\* the item is deleted between ticks
RemoveItem ==
    /\ \E id \in ItemIds(board) : board' = remove_item(board, id)
    /\ UNCHANGED <<webviews, now, ticks, observed>>
    /\ WebviewFrame

NextWebview == PolicyTick \/ ScrollTo \/ RemoveItem

SpecWebview == InitWebview /\ [][NextWebview]_vars


(***************************************************************************)
(* Properties of the webview lifecycle, under SpecWebview.                 *)
(***************************************************************************)
FarNow(id) == item_distance(board, preview, id) > WEBVIEW_UNLOAD_DISTANCE

\* C12: a policy tick destroys the webview of an item still in the scene
\* only if every tick of at least the preceding unload delay saw the item
\* beyond the unload distance: the run of far ticks that this tick belongs
\* to began at least the unload delay ago.
C12_DestroyedOnlyAfterFullDelay ==
    [][\A id \in webviews.youtube :
          (/\ id \notin webviews'.youtube
           /\ id \in youtube_ids(board)
           /\ PolicyTick) =>
             /\ id \in DOMAIN observed'.far_since
             /\ now' - observed'.far_since[id] >= WEBVIEW_UNLOAD_DELAY_MS]_vars

\* C13: when an item with an out-of-range marker is within the unload
\* distance at a tick that comes before the unload delay has elapsed since
\* the marker, the tick clears the marker and keeps the webview.
C13_ReentryClearsMarker ==
    [][\A id \in DOMAIN webviews.out_of_range_since :
          (/\ id \in youtube_ids(board)
           /\ ~FarNow(id)
           /\ PolicyTick
           /\ now' - webviews.out_of_range_since[id] < WEBVIEW_UNLOAD_DELAY_MS) =>
             /\ id \notin DOMAIN webviews'.out_of_range_since
             /\ id \in webviews'.youtube]_vars

\* C14: a live webview whose item is beyond the unload distance at a tick,
\* and has been at every tick since one that is at least the unload delay
\* back, is destroyed by that tick and its marker removed; so the first such
\* tick destroys it.
C14_DestroyedWhenDelayElapsed ==
    [][\A id \in webviews.youtube :
          (/\ id \in youtube_ids(board)
           /\ FarNow(id)
           /\ PolicyTick
           /\ now' - observed'.far_since[id] >= WEBVIEW_UNLOAD_DELAY_MS) =>
             /\ id \notin webviews'.youtube
             /\ id \notin DOMAIN webviews'.out_of_range_since]_vars

\* the last tick destroyed the webview of the item, which is in the scene
\* and has been far for exactly the unload delay
C14_Witness ==
    /\ 0 \in observed.destroyed
    /\ has_item(board, 0)
    /\ 0 \in DOMAIN observed.far_since
    /\ now - observed.far_since[0] = WEBVIEW_UNLOAD_DELAY_MS
    /\ 0 \notin DOMAIN webviews.out_of_range_since

\* C15: a webview whose item is no longer in the scene is destroyed by the
\* next policy tick, whatever the distance and the time elapsed.
C15_DeletedItemDestroyedAtOnce ==
    [][\A id \in webviews.youtube :
          (id \notin youtube_ids(board) /\ PolicyTick) =>
             /\ id \notin webviews'.youtube
             /\ id \notin DOMAIN webviews'.out_of_range_since]_vars

\* the item was deleted while its webview was live and in view, and the
\* first tick after, 1 ms after the webview was made, destroyed the webview
C15_Witness ==
    /\ 0 \in observed.destroyed
    /\ ~has_item(board, 0)
    /\ ticks = 2
    /\ now = 2
    /\ webviews.youtube = {}


(***************************************************************************)
(* The board-switching specification: the webview policy of the webview    *)
(* specification, with the board left for the landing view and a board     *)
(* with one YouTube item opened again.                                     *)
(***************************************************************************)
\* Humanboard::ensure_youtube_webviews while no board is open: the webviews
\* and the markers are cleared
LandingTick ==
    /\ view = "Landing"
    /\ ticks < MaxTicks
    /\ \E dt \in TickSteps : now' = now + dt
    /\ webviews' = [youtube |-> {}, out_of_range_since |-> <<>>]
    /\ ticks' = ticks + 1
    /\ observed' = [far_since |-> <<>>, destroyed |-> webviews.youtube]
    /\ UNCHANGED board
    /\ WebviewFrame

\* Humanboard::open_board: Board::load brings the stored scene and its
\* stored canvas offset
ReopenBoard ==
    /\ view = "Landing"
    /\ \E offset \in ScrollOffsets :
          board' = [add_item(Board_new, <<0, 0>>, YouTubeContent)
                       EXCEPT !.canvas_offset = offset]
    /\ view' = "Board"
    /\ UNCHANGED <<selected_items, input_state, tool_selected, drawing_start,
                   drawing_current, preview, save_failed, downs, index, shadow,
                   index_op, webviews, now, ticks, observed, pointer_moved,
                   calls, coords, lazy>>

NextBoards ==
    \/ view = "Board" /\ (PolicyTick \/ ScrollTo \/ RemoveItem)
    \/ view = "Board" /\ GoHome
    \/ LandingTick
    \/ ReopenBoard

SpecBoards == InitWebview /\ [][NextBoards]_vars

\* C37: after every policy tick and after the board is left or another is
\* opened, every key of the out-of-range marker map is the id of an item
\* that has a live webview: no marker outlives the webview it was recorded
\* for.
C37_MarkersHaveWebviews ==
    DOMAIN webviews.out_of_range_since \subseteq webviews.youtube


(***************************************************************************)
(* The split-panes specification: the preview panel is open and split into *)
(* two panes; a gesture begins on the canvas, on the canvas/preview        *)
(* splitter, or on the splitter between the panes.                         *)
(***************************************************************************)
\* on the first item, near the vertical split (x = 600), near the
\* horizontal split (y = 420), in the preview panel of either split
PanePoints == {<<100, 80>>, <<598, 300>>, <<300, 418>>, <<750, 300>>,
               <<300, 560>>, <<850, 600>>}

InitPanes ==
    /\ board = add_item(add_item(Board_new, <<0, 0>>, TextContent),
                        <<400, 0>>, TextContent)
    /\ selected_items = {}
    /\ input_state = Idle
    /\ tool_selected = "Select"
    /\ drawing_start = None
    /\ drawing_current = None
    /\ \E split \in {"Vertical", "Horizontal"}, horizontal \in BOOLEAN :
          preview = [Panel(split, 400) EXCEPT !.is_pane_split = TRUE,
                                              !.pane_split_horizontal = horizontal]
    /\ save_failed = FALSE
    /\ downs = 0
    /\ index = SpatialIndex_new
    /\ shadow = <<>>
    /\ index_op = "none"
    /\ webviews = WebViewManager_new
    /\ now = 0
    /\ ticks = 0
    /\ observed = [far_since |-> <<>>, destroyed |-> {}]
    /\ pointer_moved = FALSE
    /\ view = "Board"
    /\ calls = <<>>
    /\ coords = NoConversion
    /\ lazy = NoSource

PaneFrame == UNCHANGED <<index, shadow, index_op, webviews, now, ticks,
                         observed, pointer_moved, view, calls, coords, lazy>>

PaneDown ==
    /\ downs < MaxGestures
    /\ \E p \in PanePoints, shift \in BOOLEAN :
          Becomes(handle_mouse_down(St, p, shift, 1))
    /\ downs' = downs + 1
    /\ PaneFrame

\* pointer-down on the splitter between the panes
PaneSplitterDown ==
    /\ downs < MaxGestures
    /\ is_idle(input_state)
    /\ preview.open /\ preview.is_pane_split
    /\ \E p \in PanePoints :
          input_state' = start_pane_splitter_drag(input_state, p,
                                                  preview.pane_split_horizontal)
    /\ downs' = downs + 1
    /\ UNCHANGED <<board, selected_items, tool_selected, drawing_start,
                   drawing_current, preview, save_failed>>
    /\ PaneFrame

PaneMove ==
    /\ \E p \in PanePoints : Becomes(handle_mouse_move(St, p))
    /\ UNCHANGED downs
    /\ PaneFrame

PaneUp ==
    /\ \E p \in PanePoints, shift \in BOOLEAN, save_ok \in BOOLEAN :
          Becomes(handle_mouse_up(St, p, shift, save_ok))
    /\ UNCHANGED downs
    /\ PaneFrame

NextPanes == PaneDown \/ PaneSplitterDown \/ PaneMove \/ PaneUp

SpecPanes == InitPanes /\ [][NextPanes]_vars

\* C38: a pointer-move while SplitterDragging with the PaneSplit direction
\* sets the ratio between the panes from the pointer and leaves the
\* canvas/preview split size as it was; a pointer-move while
\* SplitterDragging with the CanvasPreview direction sets the split size
\* from the pointer and leaves the pane ratio as it was.
C38_SplitterMoveByDirection ==
    [][PaneMove =>
          /\ is_pane_splitter_dragging(input_state) =>
                /\ \E p \in PanePoints : preview' = pane_splitter_move(preview, p)
                /\ preview'.size = preview.size
          /\ is_canvas_splitter_dragging(input_state) =>
                /\ \E p \in PanePoints : preview' = splitter_move(preview, p)
                /\ preview'.pane_ratio = preview.pane_ratio]_vars

=============================================================================
